---- MODULE Spec2Model ----
(***************************************************************************)
(* A model of the HaTSPiL execution engine, hatspil/core/executor.py.      *)
(*                                                                         *)
(* A Python str is modelled as a sequence of tokens (each token stands for *)
(* a run of characters); a filename is such a string.  A dict is modelled  *)
(* as a sequence of [k, v] records, in insertion order.                    *)
(***************************************************************************)
EXTENDS Integers, Sequences, FiniteSets, TLC

VARIABLES
    last_operation_filenames, \* analysis.last_operation_filenames
    can_unlink,               \* analysis.can_unlink
    bamfiles,                 \* analysis.bamfiles
    run_fake,                 \* analysis.run_fake
    use_normals_param,        \* analysis.parameters["use_normals"]
    fs,                       \* the files that exist on the filesystem
    data,                     \* Executor.data, the parameters of the call
    pc,                       \* position within Executor.__call__
    work,                     \* the (input, mod input) pairs __call__ iterates
    ui,                       \* index in work of the current unit
    unit,                     \* locals of _handle_analysis for the current unit
    ci,                       \* command_index
    output_filenames,         \* __call__'s output_filenames accumulator
    output_bamfiles,          \* __call__'s output_bamfiles accumulator
    outcome,                  \* how the last call ended
    steps,                    \* number of calls made
    hist                      \* what the running call did, for the properties

vars == <<last_operation_filenames, can_unlink, bamfiles, run_fake,
          use_normals_param, fs, data, pc, work, ui, unit, ci,
          output_filenames, output_bamfiles, outcome, steps, hist>>

engine == <<last_operation_filenames, can_unlink, bamfiles, run_fake,
            use_normals_param>>

(***************************************************************************)
(* Bounds.                                                                 *)
(***************************************************************************)
\* the number of Executor calls in one run of the pipeline
MaxSteps == 2

(***************************************************************************)
(* Strings as token sequences.                                             *)
(***************************************************************************)
\* the tokens, in the order of the characters they start with
Alphabet ==
    <<" ", "%d", "-N", "-T", "-X", "-s1", "-s2", ".", ".L2", ".R", ".R1", ".R2",
      ".bai", ".bam", ".clipped", ".fastq", ".out", ".sam", "/", "1", "10", "19",
      "2", "P1", "P2", "REPORTS", "cwd", "hg", "input_filename",
      "input_filenames[0]", "mm", "nosuch", "organism_str", "output_filename",
      "raw", "status", "tool", "{", "}">>

Rank(t) == CHOOSE i \in 1..Len(Alphabet) : Alphabet[i] = t

RECURSIVE StrLess(_, _)
\* a < b on Python strings (lexicographic)
StrLess(a, b) ==
    IF b = <<>> THEN FALSE
    ELSE IF a = <<>> THEN TRUE
    ELSE IF Head(a) = Head(b) THEN StrLess(Tail(a), Tail(b))
    ELSE Rank(Head(a)) < Rank(Head(b))

RECURSIVE Flatten(_)
\* the concatenation of a sequence of sequences
Flatten(ss) == IF ss = <<>> THEN <<>> ELSE Head(ss) \o Flatten(Tail(ss))

RECURSIVE JoinWith(_, _)
\* sep.join(strs)
JoinWith(sep, strs) ==
    IF strs = <<>> THEN <<>>
    ELSE IF Len(strs) = 1 THEN Head(strs)
    ELSE Head(strs) \o sep \o JoinWith(sep, Tail(strs))

Range(s) == {s[i] : i \in 1..Len(s)}

\* the last index of token t in s, 0 when absent
LastIndexOf(s, t) ==
    LET I == {i \in 1..Len(s) : s[i] = t}
    IN  IF I = {} THEN 0 ELSE CHOOSE i \in I : \A j \in I : j <= i

\* os.path.dirname
Dirname(f) ==
    LET i == LastIndexOf(f, "/")
    IN  IF i = 0 THEN <<>> ELSE IF i = 1 THEN <<"/">> ELSE SubSeq(f, 1, i - 1)

\* os.path.basename
Basename(f) == SubSeq(f, LastIndexOf(f, "/") + 1, Len(f))

\* os.getcwd()
Cwd == <<"/", "cwd">>

\* os.path.join(a, b)
PathJoin(a, b) ==
    IF b # <<>> /\ Head(b) = "/" THEN b
    ELSE IF a = <<>> THEN b
    ELSE IF a[Len(a)] = "/" THEN a \o b
    ELSE a \o <<"/">> \o b

\* a value under a name: F(v), with v evaluated once
Bind(v, F(_)) == F(v)

Extensions == {".bai", ".bam", ".fastq", ".out", ".sam"}

\* os.path.splitext(filename)[1]
Splitext1(f) ==
    LET b == Basename(f)
    IN  IF Len(b) >= 2 /\ b[Len(b)] \in Extensions THEN <<b[Len(b)]>> ELSE <<>>

(***************************************************************************)
(* The file classifier, hatspil.core.barcoded_filename.BarcodedFilename.   *)
(* A barcoded name is  id tissue sequencing [. organism] [read] rest.      *)
(***************************************************************************)
Ids == {"P1", "P2"}
Tissues == {"-T", "-N", "-X"}
Sequencings == {"-s1", "-s2"}
OrganismHeads == {"hg", "mm"}
Reads == {".R1", ".R2"}

NoBarcode == [ok |-> FALSE]

\* BarcodedFilename(filename); ok = FALSE stands for the constructor raising
BarcodedFilename(f) ==
    Bind(Basename(f), LAMBDA b :
        IF ~(Len(b) >= 3 /\ b[1] \in Ids /\ b[2] \in Tissues /\ b[3] \in Sequencings)
        THEN NoBarcode
        ELSE LET hasOrg == Len(b) >= 6 /\ b[4] = "." /\ b[5] \in OrganismHeads
                 r == IF hasOrg THEN 7 ELSE 4
             IN  [ok |-> TRUE,
                  id |-> b[1],
                  tissue |-> b[2],
                  sequencing |-> b[3],
                  organism |-> IF hasOrg THEN <<b[5], b[6]>> ELSE <<>>,
                  read_index |-> IF Len(b) >= r /\ b[r] \in Reads
                                 THEN (IF b[r] = ".R1" THEN 1 ELSE 2) ELSE 0])

\* Tissue.is_normal()
is_normal(tissue) == tissue = "-N"

\* Tissue.is_tumor()
is_tumor(tissue) == tissue = "-T"

\* BarcodedFilename.equals_without_tissue
equals_without_tissue(a, b) == a.id = b.id

\* AnalysisFileData.__init__: the type of a file
AnalysisType(f) ==
    Bind(BarcodedFilename(f), LAMBDA bc :
        IF ~bc.ok THEN "Unspecified"
        ELSE IF is_normal(bc.tissue) THEN "Control"
        ELSE IF is_tumor(bc.tissue) THEN "Sample"
        ELSE "Unspecified")

\* SingleAnalysis.sample: the first file of type Sample, <<>> for None
SingleAnalysis_sample(analysis) ==
    LET I == {i \in 1..Len(analysis) : AnalysisType(analysis[i]) = "Sample"}
    IN  IF I = {} THEN <<>> ELSE <<analysis[CHOOSE i \in I : \A j \in I : i <= j]>>

\* SingleAnalysis.control: the first file of type Control, <<>> for None
SingleAnalysis_control(analysis) ==
    LET I == {i \in 1..Len(analysis) : AnalysisType(analysis[i]) = "Control"}
    IN  IF I = {} THEN <<>> ELSE <<analysis[CHOOSE i \in I : \A j \in I : i <= j]>>

(***************************************************************************)
(* Dicts, in insertion order.                                              *)
(***************************************************************************)
DictKeys(d) == {d[i].k : i \in 1..Len(d)}

DictGet(d, key) == d[CHOOSE i \in 1..Len(d) : d[i].k = key].v

\* d.setdefault(key, []).append(x)
DictAppend(d, key, x) ==
    IF key \in DictKeys(d)
    THEN [i \in 1..Len(d) |->
             IF d[i].k = key THEN [k |-> key, v |-> Append(d[i].v, x)] ELSE d[i]]
    ELSE Append(d, [k |-> key, v |-> <<x>>])

RECURSIVE DictAppendAll(_, _, _)
DictAppendAll(d, key, xs) ==
    IF xs = <<>> THEN d
    ELSE DictAppendAll(DictAppend(d, key, Head(xs)), key, Tail(xs))

\* all the values of a dict of lists, flattened
DictValues(d) == Flatten([i \in 1..Len(d) |-> d[i].v])

(***************************************************************************)
(* Executor._get_fixed_normals_analyses.  The lists are mutated in place,  *)
(* and list.remove compares objects by identity, so every file object is   *)
(* given an object id for the duration of the pairing.                     *)
(***************************************************************************)
TagAnalyses(analyses) ==
    [u \in 1..Len(analyses) |->
        [p \in 1..Len(analyses[u]) |-> [fn |-> analyses[u][p], oid |-> <<u, p>>]]]

UntagAnalyses(analyses) ==
    [u \in 1..Len(analyses) |-> [p \in 1..Len(analyses[u]) |-> analyses[u][p].fn]]

\* list.remove(x): the list without the first occurrence of the object
ListRemove(l, oid) ==
    LET I == {i \in 1..Len(l) : l[i].oid = oid}
    IN  IF I = {} THEN l
        ELSE LET i == CHOOSE i \in I : \A j \in I : i <= j
             IN  SubSeq(l, 1, i - 1) \o SubSeq(l, i + 1, Len(l))

\* the (other_analysis, other_file_data) pairs of the list comprehension
NormalsControls(analyses, file_data) ==
    Flatten([u \in 1..Len(analyses) |->
        LET sel == SelectSeq(analyses[u], LAMBDA o :
                       /\ equals_without_tissue(BarcodedFilename(file_data.fn),
                                                BarcodedFilename(o.fn))
                       /\ is_normal(BarcodedFilename(o.fn).tissue))
        IN  [p \in 1..Len(sel) |-> [u |-> u, o |-> sel[p]]]])

RECURSIVE NormalsRemoveAll(_, _, _)
\* for control in controls: control[0].remove(control[1]); the list that was
\* at analysis_index has been replaced in analyses, so removing from it
\* does not change analyses
NormalsRemoveAll(analyses, controls, analysis_index) ==
    IF controls = <<>> THEN analyses
    ELSE LET c == Head(controls)
             next == IF c.u = analysis_index THEN analyses
                     ELSE [analyses EXCEPT ![c.u] = ListRemove(@, c.o.oid)]
         IN  NormalsRemoveAll(next, Tail(controls), analysis_index)

\* a choice that takes all the controls whatever their sequencing; it
\* differs from NormalsChosen below
NormalsChosenAll(controls, file_data) == controls

\* the controls of the same sequencing as file_data when there are any,
\* else all the controls
NormalsChosen(controls, file_data) ==
    Bind(SelectSeq(controls, LAMBDA c :
             BarcodedFilename(c.o.fn).sequencing
                 = BarcodedFilename(file_data.fn).sequencing),
         LAMBDA sequencing_specific :
             IF sequencing_specific # <<>> THEN sequencing_specific ELSE controls)

\* a pairing that appends the controls to the sample's unit but removes
\* them from no unit; it differs from NormalsPair below
NormalsPairKeepingControls(analyses, analysis_index, controls, chosen) ==
    [analyses EXCEPT ![analysis_index] =
        @ \o [i \in 1..Len(controls) |-> controls[i].o]]

\* the body of the loop for a sample file_data and its controls
NormalsPair(analyses, analysis_index, controls, chosen) ==
    IF Len(controls) = 1
    THEN LET control == controls[1]
             appended == [analyses EXCEPT ![analysis_index] = Append(@, control.o)]
         IN  [appended EXCEPT ![control.u] = ListRemove(@, control.o.oid)]
    ELSE NormalsRemoveAll(
             [analyses EXCEPT ![analysis_index] =
                 @ \o [i \in 1..Len(chosen) |-> chosen[i].o]],
             chosen, analysis_index)

\* one iteration of the loop over enumerate(analyses)
NormalsIteration(analyses, analysis_index) ==
    IF analyses[analysis_index] = <<>> THEN analyses
    ELSE IF AnalysisType(analyses[analysis_index][1].fn) # "Sample" THEN analyses
    ELSE Bind(NormalsControls(analyses, analyses[analysis_index][1]),
              LAMBDA controls :
                  NormalsPair(analyses, analysis_index, controls,
                      NormalsChosen(controls, analyses[analysis_index][1])))

\* whether the iteration reads the barcode of a file that has none
NormalsIterationRaises(analyses, analysis_index) ==
    LET analysis == analyses[analysis_index]
    IN  /\ analysis # <<>>
        /\ AnalysisType(analysis[1].fn) = "Sample"
        /\ \E u \in 1..Len(analyses) : \E p \in 1..Len(analyses[u]) :
               ~BarcodedFilename(analyses[u][p].fn).ok

RECURSIVE NormalsLoop(_, _)
NormalsLoop(analyses, analysis_index) ==
    IF analysis_index > Len(analyses) THEN [ok |-> TRUE, v |-> analyses]
    ELSE IF NormalsIterationRaises(analyses, analysis_index)
    THEN [ok |-> FALSE, err |-> "AttributeError"]
    ELSE NormalsLoop(NormalsIteration(analyses, analysis_index), analysis_index + 1)

\* Executor._get_fixed_normals_analyses(analyses)
get_fixed_normals_analyses(analyses) ==
    Bind(NormalsLoop(TagAnalyses(analyses), 1), LAMBDA r :
        IF ~r.ok THEN r
        ELSE [ok |-> TRUE,
              v |-> SelectSeq(UntagAnalyses(r.v), LAMBDA analysis : analysis # <<>>)])

(***************************************************************************)
(* Input resolution.                                                       *)
(***************************************************************************)
\* Python's None where a str is expected
PyNone == <<"None">>

\* the truth value of an Optional[str]
Truthy(x) == x # PyNone /\ x # <<>>

PipelineError(msg) == [ok |-> FALSE, err |-> [type |-> "PipelineError", msg |-> msg]]

Raise(type) == [ok |-> FALSE, err |-> [type |-> type, msg |-> <<>>]]

RECURSIVE Dedup(_)
\* the elements of s in the order of their first occurrence
Dedup(s) ==
    IF s = <<>> THEN <<>>
    ELSE LET rest == Dedup(SubSeq(s, 1, Len(s) - 1))
         IN  IF s[Len(s)] \in Range(rest) THEN rest ELSE Append(rest, s[Len(s)])

\* the organism a filename is grouped under, <<>> when it has none
OrganismKey(f) ==
    Bind(BarcodedFilename(f), LAMBDA bc : IF bc.ok THEN bc.organism ELSE <<>>)

\* the filenames of analysis.last_operation_filenames or input_filenames
FlatFilenames(obj) ==
    CASE obj.t = "list" -> obj.v
      [] obj.t = "dict" -> DictValues(obj.v)
      [] obj.t = "str" -> <<obj.v>>
      [] OTHER -> <<>>

\* the filenames by organism, in the order the organisms first occur
ByOrganism(filenames, keys) ==
    [i \in 1..Len(keys) |->
        [k |-> keys[i],
         v |-> SelectSeq(filenames, LAMBDA f : OrganismKey(f) = keys[i])]]

\* utils.get_sample_filenames(obj, split_by_organism): a dict of the
\* filenames by organism when split_by_organism is set, else their list
get_sample_filenames(obj, split_by_organism) ==
    Bind(FlatFilenames(obj), LAMBDA filenames :
        IF split_by_organism
        THEN [t |-> "dict",
              v |-> ByOrganism(filenames,
                        Dedup([i \in 1..Len(filenames) |-> OrganismKey(filenames[i])]))]
        ELSE [t |-> "list", v |-> filenames])

\* a grouping that makes one unit of an organism's filenames whatever
\* split_input_files is; it differs from MakeAnalyses below
MakeAnalysesWhole(filenames, split_input_files) == <<filenames>>

\* the SingleAnalysis list built from one organism's filenames
MakeAnalyses(filenames, split_input_files) ==
    IF split_input_files
    THEN [i \in 1..Len(filenames) |-> <<filenames[i]>>]
    ELSE <<filenames>>

\* a _fix_input_filenames that merges the units of every organism whatever
\* input_split_reads is; it differs from fix_input_filenames below
fix_input_filenames_merging(d, input_split_reads) ==
    [i \in 1..Len(d) |-> [k |-> d[i].k, v |-> <<Flatten(d[i].v)>>]]

\* Executor._fix_input_filenames, past its emptiness check
fix_input_filenames(d, input_split_reads) ==
    IF input_split_reads THEN d
    ELSE [i \in 1..Len(d) |-> [k |-> d[i].k, v |-> <<Flatten(d[i].v)>>]]

\* the input_function callbacks: " ".join(sorted(l)) and Mapping._filter_non_hg
InputFunctions == {"join", "filter_non_hg"}

\* sorted(s) of a str s: its characters, in order
SortedChars(str) ==
    Bind(SortSeq(str, LAMBDA a, b : Rank(a) < Rank(b)), LAMBDA chars :
        [i \in 1..Len(chars) |-> <<chars[i]>>])

\* Mapping._filter_non_hg(filename)
filter_non_hg(filename) ==
    Bind(BarcodedFilename(filename), LAMBDA bc :
        IF ~bc.ok THEN Raise("CallbackError")
        ELSE [ok |-> TRUE,
              v |-> IF bc.organism = <<>> \/ Head(bc.organism) = "hg"
                    THEN filename ELSE PyNone])

\* input_function(param); param.v is a str when param.list is FALSE
ApplyInputFunction(fn, param) ==
    IF fn = "join"
    THEN [ok |-> TRUE,
          v |-> IF param.list
                THEN JoinWith(<<" ">>, SortSeq(param.v, StrLess))
                ELSE JoinWith(<<" ">>, SortedChars(param.v))]
    ELSE IF param.list THEN Raise("CallbackError")
    ELSE filter_non_hg(param.v)

\* the key of splitted_data a filename goes under
ReadKey(f) ==
    Bind(BarcodedFilename(f), LAMBDA bc : IF bc.ok THEN bc.read_index ELSE 0)

\* a parameter of input_function: the filename when there is one, else the list
InputFunctionParam(filenames) ==
    IF Len(filenames) = 1
    THEN [list |-> FALSE, v |-> filenames[1]]
    ELSE [list |-> TRUE, v |-> filenames]

\* the parameters input_function is called with for one analysis
InputFunctionParams(analysis, input_split_reads) ==
    IF input_split_reads
    THEN Bind(Dedup([i \in 1..Len(analysis) |-> ReadKey(analysis[i])]), LAMBDA keys :
             [i \in 1..Len(keys) |->
                 InputFunctionParam(
                     SelectSeq(analysis, LAMBDA f : ReadKey(f) = keys[i]))])
    ELSE <<[list |-> TRUE, v |-> analysis]>>

\* analyses made of the non-empty results of input_function whatever
\* input_split_reads is; it differs from ModResults below
ModResultsNonEmpty(results, input_split_reads) ==
    IF \E i \in 1..Len(results) : ~results[i].ok THEN Raise("CallbackError")
    ELSE Bind(SelectSeq(results, LAMBDA r : Truthy(r.v)),
              LAMBDA kept : [ok |-> TRUE, v |-> [i \in 1..Len(kept) |-> <<kept[i].v>>]])

\* the analyses made of the results of input_function
ModResults(results, input_split_reads) ==
    IF \E i \in 1..Len(results) : ~results[i].ok THEN Raise("CallbackError")
    ELSE Bind(SelectSeq(results, LAMBDA r : ~input_split_reads \/ Truthy(r.v)),
              LAMBDA kept : [ok |-> TRUE, v |-> [i \in 1..Len(kept) |-> <<kept[i].v>>]])

\* the analyses _create_mod_input_filenames makes of one organism's analyses
ModAnalyses(fn, analyses, input_split_reads) ==
    Bind(Flatten([i \in 1..Len(analyses) |->
             InputFunctionParams(analyses[i], input_split_reads)]),
         LAMBDA params :
             ModResults([i \in 1..Len(params) |-> ApplyInputFunction(fn, params[i])],
                        input_split_reads))

\* Executor._create_mod_input_filenames(input_filenames), input_filenames
\* being non-empty and already fixed
create_mod_input_filenames(input_filenames, fn, input_split_reads) ==
    Bind([i \in 1..Len(input_filenames) |->
             ModAnalyses(fn, input_filenames[i].v, input_split_reads)],
         LAMBDA mods :
             IF \E i \in 1..Len(mods) : ~mods[i].ok THEN Raise("CallbackError")
             ELSE [ok |-> TRUE,
                   v |-> fix_input_filenames(
                             [i \in 1..Len(mods) |->
                                 [k |-> input_filenames[i].k, v |-> mods[i].v]],
                             input_split_reads)])

\* the input_filenames dict of _get_input_filenames before the pairing
GroupedAnalyses(raw, split_input_files) ==
    IF raw.t = "dict"
    THEN [i \in 1..Len(raw.v) |->
            [k |-> raw.v[i].k, v |-> MakeAnalyses(raw.v[i].v, split_input_files)]]
    ELSE <<[k |-> <<>>, v |-> MakeAnalyses(raw.v, split_input_files)]>>

\* the pairing of every organism's analyses when use_normals is set
FixedAnalyses(grouped, use_normals) ==
    [i \in 1..Len(grouped) |->
        IF use_normals THEN get_fixed_normals_analyses(grouped[i].v)
        ELSE [ok |-> TRUE, v |-> grouped[i].v]]

\* the end of _get_input_filenames: the fixed input and the mod input
InputAndMod(d, input) ==
    IF d.input_function = "None"
    THEN [ok |-> TRUE, input |-> input, mod |-> <<>>]
    ELSE Bind(create_mod_input_filenames(input, d.input_function, d.input_split_reads),
              LAMBDA m : IF ~m.ok THEN m
                         ELSE [ok |-> TRUE, input |-> input, mod |-> m.v])

\* _get_input_filenames from the grouped dict on
PairedInput(d, grouped, fixed) ==
    IF \E i \in 1..Len(fixed) : ~fixed[i].ok THEN Raise("AttributeError")
    ELSE IF grouped = <<>> THEN PipelineError(<<"empty input list">>)
    ELSE InputAndMod(d,
             fix_input_filenames(
                 [i \in 1..Len(grouped) |-> [k |-> grouped[i].k, v |-> fixed[i].v]],
                 d.input_split_reads))

\* an input resolution that reads analysis.last_operation_filenames whether
\* input_filenames is given or not; it differs from get_input_filenames below
get_input_filenames_of_state(d, last, use_normals) ==
    IF last.t = "None"
    THEN PipelineError(<<"input files missing and last_operation_filenames empty">>)
    ELSE Bind(GroupedAnalyses(get_sample_filenames(last, d.split_by_organism),
                              d.split_input_files),
              LAMBDA grouped :
                  PairedInput(d, grouped,
                      FixedAnalyses(grouped, use_normals /\ d.use_normals)))

\* Executor._get_input_filenames(): ok with (input, mod), or the exception
get_input_filenames(d, last, use_normals) ==
    IF d.input_filenames.t = "None" /\ last.t = "None"
    THEN PipelineError(<<"input files missing and last_operation_filenames empty">>)
    ELSE Bind(GroupedAnalyses(
                  get_sample_filenames(
                      IF d.input_filenames.t = "None" THEN last ELSE d.input_filenames,
                      d.split_by_organism),
                  d.split_input_files),
              LAMBDA grouped :
                  PairedInput(d, grouped,
                      FixedAnalyses(grouped, use_normals /\ d.use_normals)))

(***************************************************************************)
(* Placeholders: Executor.RE_REPLACER = \{([^}]+)\} and its uses.          *)
(***************************************************************************)
\* the index of the first "}" of s at or after i, 0 when there is none
FirstClose(s, i) ==
    LET J == {j \in i..Len(s) : s[j] = "}"}
    IN  IF J = {} THEN 0 ELSE CHOOSE j \in J : \A k \in J : j <= k

RECURSIVE FindIterEmptyBraces(_, _)
\* a scan that also takes "{}" for a placeholder; it differs from FindIter
\* below
FindIterEmptyBraces(s, i) ==
    IF i > Len(s) THEN <<>>
    ELSE LET j == FirstClose(s, i + 1)
         IN  IF s[i] = "{" /\ j >= i + 1
             THEN <<[whole |-> SubSeq(s, i, j), expr |-> SubSeq(s, i + 1, j - 1)]>>
                      \o FindIterEmptyBraces(s, j + 1)
             ELSE FindIterEmptyBraces(s, i + 1)

RECURSIVE FindIter(_, _)
\* RE_REPLACER.finditer(s) from index i: the matches, left to right, each
\* with group(0) as whole and group(1) as expr
FindIter(s, i) ==
    IF i > Len(s) THEN <<>>
    ELSE LET j == FirstClose(s, i + 1)
         IN  IF s[i] = "{" /\ j >= i + 2
             THEN <<[whole |-> SubSeq(s, i, j), expr |-> SubSeq(s, i + 1, j - 1)]>>
                      \o FindIter(s, j + 1)
             ELSE FindIter(s, i + 1)

\* whether pat occurs in s at index i
OccursAt(s, pat, i) ==
    i + Len(pat) - 1 <= Len(s) /\ SubSeq(s, i, i + Len(pat) - 1) = pat

RECURSIVE StrReplace(_, _, _)
\* s.replace(pat, rep), pat not empty
StrReplace(s, pat, rep) ==
    IF s = <<>> THEN <<>>
    ELSE IF OccursAt(s, pat, 1)
    THEN rep \o StrReplace(SubSeq(s, Len(pat) + 1, Len(s)), pat, rep)
    ELSE <<Head(s)>> \o StrReplace(Tail(s), pat, rep)

\* re.sub(pat, rep, s) for a pattern "{expr}": the pattern is read as a
\* regular expression, in which "[0]" is a character class that matches the
\* character 0, so that "{input_filenames[0]}" matches the text
\* "{input_filenames0}" and not itself; the other tokens match themselves
ReSub(pat, rep, s) ==
    StrReplace(s,
               [i \in 1..Len(pat) |->
                   IF pat[i] = "input_filenames[0]" THEN "input_filenames0"
                   ELSE pat[i]],
               rep)

\* eval(expr) in the scope ctx, a dict from names to str(value), PyNone for None
Eval(expr, ctx) ==
    IF Len(expr) = 1 /\ expr[1] \in DictKeys(ctx)
    THEN [ok |-> TRUE, v |-> DictGet(ctx, expr[1])]
    ELSE [ok |-> FALSE]

RECURSIVE SubstituteSkipping(_, _, _, _)
\* a loop that leaves in place the placeholders it cannot evaluate; it
\* differs from Substitute below
SubstituteSkipping(s, matches, ctx, regex) ==
    IF matches = <<>> THEN [ok |-> TRUE, v |-> s]
    ELSE Bind(Eval(Head(matches).expr, ctx), LAMBDA evaluated :
             IF ~evaluated.ok
             THEN SubstituteSkipping(s, Tail(matches), ctx, regex)
             ELSE IF evaluated.v = PyNone
             THEN PipelineError(<<"evaluation of ">> \o Head(matches).expr
                                    \o <<" is None">>)
             ELSE SubstituteSkipping(
                      IF regex THEN ReSub(Head(matches).whole, evaluated.v, s)
                      ELSE StrReplace(s, Head(matches).whole, evaluated.v),
                      Tail(matches), ctx, regex))

RECURSIVE SubstituteNoneAsText(_, _, _, _)
\* a loop that writes None as the text "None"; it differs from Substitute
\* below
SubstituteNoneAsText(s, matches, ctx, regex) ==
    IF matches = <<>> THEN [ok |-> TRUE, v |-> s]
    ELSE Bind(Eval(Head(matches).expr, ctx), LAMBDA evaluated :
             IF ~evaluated.ok
             THEN PipelineError(<<"cannot evaluate ">> \o Head(matches).expr)
             ELSE SubstituteNoneAsText(
                      IF regex THEN ReSub(Head(matches).whole, evaluated.v, s)
                      ELSE StrReplace(s, Head(matches).whole, evaluated.v),
                      Tail(matches), ctx, regex))

RECURSIVE Substitute(_, _, _, _)
\* the loop over the matches of _get_commands and _get_output_filename;
\* regex tells whether the replacement is re.sub or str.replace
Substitute(s, matches, ctx, regex) ==
    IF matches = <<>> THEN [ok |-> TRUE, v |-> s]
    ELSE Bind(Eval(Head(matches).expr, ctx), LAMBDA evaluated :
             IF ~evaluated.ok
             THEN PipelineError(<<"cannot evaluate ">> \o Head(matches).expr)
             ELSE IF evaluated.v = PyNone
             THEN PipelineError(<<"evaluation of ">> \o Head(matches).expr
                                    \o <<" is None">>)
             ELSE Substitute(IF regex THEN ReSub(Head(matches).whole, evaluated.v, s)
                             ELSE StrReplace(s, Head(matches).whole, evaluated.v),
                             Tail(matches), ctx, regex))

\* a command or output template with its placeholders replaced
Resolve(s, ctx, regex) == Substitute(s, FindIter(s, 1), ctx, regex)

RECURSIVE SubstituteError(_, _, _)
\* the loops of _handle_command over error_string and exception_string:
\* str(eval(...)) turns None into "None"
SubstituteError(s, matches, ctx) ==
    IF matches = <<>> THEN [ok |-> TRUE, v |-> s]
    ELSE Bind(Eval(Head(matches).expr, ctx), LAMBDA evaluated :
             IF ~evaluated.ok
             THEN PipelineError(<<"cannot replace parameter ">> \o Head(matches).whole)
             ELSE SubstituteError(ReSub(Head(matches).whole, evaluated.v, s),
                                  Tail(matches), ctx))

\* an error or exception template with its placeholders replaced
ResolveError(s, ctx) == SubstituteError(s, FindIter(s, 1), ctx)

\* str(list of str)
ListRepr(l) ==
    <<"[">> \o JoinWith(<<", ">>, [i \in 1..Len(l) |-> <<"'">> \o l[i] \o <<"'">>])
            \o <<"]">>

\* str(x) of an output_filename value
OutputRepr(o) ==
    CASE o.t = "None" -> PyNone
      [] o.t = "str" -> o.v
      [] OTHER -> ListRepr(o.v)

(***************************************************************************)
(* The handling of one analysis (unit).                                    *)
(***************************************************************************)
\* utils.get_human_annotation(config)
HumanAnnotation == <<"hg", "19">>

\* organism.startswith("hg")
StartsWithHg(organism) == organism # <<>> /\ Head(organism) = "hg"

\* a condition that ignores only_human; it differs from RunsCommands below
RunsCommandsAlways(only_human, organism) == TRUE

\* the condition of _handle_analysis under which the commands are run
RunsCommands(only_human, organism) ==
    ~only_human \/ organism = <<>> \/ StartsWithHg(organism)

\* the names a template can use: organism_str of _get_additional_params,
\* organism, input_filename when there is exactly one input file, and the
\* first of input_filenames when there is one
UnitParams(organism, analysis_input) ==
    <<[k |-> "organism_str",
       v |-> IF organism = <<>> THEN <<>> ELSE <<".">> \o organism],
      [k |-> "organism",
       v |-> IF organism = <<>> THEN HumanAnnotation ELSE organism]>>
    \o (IF Len(analysis_input) = 1
        THEN <<[k |-> "input_filename", v |-> analysis_input[1]]>> ELSE <<>>)
    \o (IF analysis_input # <<>>
        THEN <<[k |-> "input_filenames[0]", v |-> analysis_input[1]]>> ELSE <<>>)

\* an output_function that returns the name of the second read first; it
\* differs from OutputFunction below
OutputFunctionSecondFirst(fn, filename) ==
    IF "%d" \notin Range(filename) THEN Raise("TypeError")
    ELSE [ok |-> TRUE,
          v |-> <<StrReplace(filename, <<"%d">>, <<"2">>),
                  StrReplace(filename, <<"%d">>, <<"1">>)>>]

\* the output_function callbacks: "reads" is Mapping.cutadapt's
\* lambda filename: [filename % (index + 1) for index in range(2)]
OutputFunction(fn, filename) ==
    IF "%d" \notin Range(filename) THEN Raise("TypeError")
    ELSE [ok |-> TRUE,
          v |-> <<StrReplace(filename, <<"%d">>, <<"1">>),
                  StrReplace(filename, <<"%d">>, <<"2">>)>>]

\* [f for fs in map(output_function, filenames) for f in fs]
MapOutputFunction(fn, filenames) ==
    Bind([i \in 1..Len(filenames) |-> OutputFunction(fn, filenames[i])], LAMBDA rs :
        IF \E i \in 1..Len(rs) : ~rs[i].ok THEN Raise("TypeError")
        ELSE [ok |-> TRUE, v |-> Flatten([i \in 1..Len(rs) |-> rs[i].v])])

RECURSIVE ResolveFormats(_, _, _)
\* the loop "for s in output_formats" of _get_output_filename; the local
\* output_filename, the list of the names made so far, is in scope
ResolveFormats(formats, params, acc) ==
    IF formats = <<>> THEN [ok |-> TRUE, v |-> acc]
    ELSE Bind(Resolve(Head(formats),
                      params \o <<[k |-> "output_filename", v |-> ListRepr(acc)]>>,
                      TRUE),
              LAMBDA r : IF ~r.ok THEN r
                         ELSE ResolveFormats(Tail(formats), params, Append(acc, r.v)))

\* a list of one name is returned as that name
OneOrList(l) == IF Len(l) = 1 THEN [t |-> "str", v |-> l[1]] ELSE [t |-> "list", v |-> l]

\* the output formats of _get_output_filename, joined to output_path
OutputFormatList(d) ==
    Bind(IF d.output_format.t = "list" THEN d.output_format.v
         ELSE <<d.output_format.v>>,
         LAMBDA raw : IF d.output_path # PyNone
                      THEN [i \in 1..Len(raw) |-> PathJoin(d.output_path, raw[i])]
                      ELSE raw)

\* the end of _get_output_filename: output_function, and a list of one
\* name becomes that name
MappedOutput(d, filenames) ==
    IF d.output_function # "None"
    THEN Bind(MapOutputFunction(d.output_function, filenames), LAMBDA m :
             IF ~m.ok THEN m ELSE [ok |-> TRUE, v |-> OneOrList(m.v)])
    ELSE [ok |-> TRUE, v |-> OneOrList(filenames)]

\* Executor._get_output_filename(all_params)
get_output_filename(d, params, input_filenames) ==
    IF d.output_format.t # "None"
    THEN Bind(ResolveFormats(OutputFormatList(d), params, <<>>), LAMBDA resolved :
             IF ~resolved.ok THEN resolved ELSE MappedOutput(d, resolved.v))
    ELSE IF d.output_function # "None"
    THEN MappedOutput(d, input_filenames)
    ELSE [ok |-> TRUE, v |-> [t |-> "None"]]

\* a resolved command in front of the commands resolved after it
ConsCommand(command, rest) ==
    IF ~rest.ok THEN rest
    ELSE [ok |-> TRUE, v |-> <<[t |-> "str", v |-> command]>> \o rest.v]

RECURSIVE ResolveCommands(_, _)
\* the loop "for s in self.data.command" of _get_commands
ResolveCommands(templates, params) ==
    IF templates = <<>> THEN [ok |-> TRUE, v |-> <<>>]
    ELSE Bind(Resolve(Head(templates), params, FALSE), LAMBDA r :
             IF ~r.ok THEN r
             ELSE ConsCommand(r.v, ResolveCommands(Tail(templates), params)))

\* Executor._get_commands(all_params)
get_commands(d, params) ==
    CASE d.command.t = "list" -> ResolveCommands(d.command.v, params)
      [] d.command.t = "str" -> ResolveCommands(<<d.command.v>>, params)
      [] OTHER -> [ok |-> TRUE, v |-> <<d.command>>]

\* the truth value of an output_filename
OutputTruthy(o) ==
    CASE o.t = "None" -> FALSE
      [] o.t = "str" -> o.v # <<>>
      [] OTHER -> o.v # <<>>

\* the first loop of _handle_output_filename: names without a directory, or
\* in ".", are joined to the working directory
NormalizeOutput(filename) ==
    IF Dirname(filename) = <<>> \/ Dirname(filename) = <<".">>
    THEN PathJoin(Cwd, filename) ELSE filename

\* the organism an output filename is recorded under
OutputOrganism(split_by_organism, filename, organism) ==
    IF split_by_organism
    THEN Bind(BarcodedFilename(filename), LAMBDA bc :
             IF bc.ok /\ bc.organism # <<>> THEN bc.organism ELSE organism)
    ELSE organism

\* a recording that adds every filename to output_bamfiles; it differs
\* from RecordOutput below
RecordOutputAsBam(acc, output_organism, filename) ==
    [f |-> DictAppend(acc.f, output_organism, filename),
     b |-> DictAppend(acc.b, output_organism, filename)]

\* the accumulators with filename added under output_organism
RecordOutput(acc, output_organism, filename) ==
    [f |-> DictAppend(acc.f, output_organism, filename),
     b |-> IF Splitext1(filename) = <<".bam">>
           THEN DictAppend(acc.b, output_organism, filename)
           ELSE acc.b]

RECURSIVE RecordOutputs(_, _, _, _)
\* the second loop of _handle_output_filename
RecordOutputs(filenames, split_by_organism, organism, acc) ==
    IF filenames = <<>> THEN acc
    ELSE RecordOutputs(Tail(filenames), split_by_organism, organism,
             RecordOutput(acc,
                 OutputOrganism(split_by_organism, Head(filenames), organism),
                 Head(filenames)))

\* a bookkeeping that records the outputs of every command whatever
\* save_only_last is; it differs from SavesOutput below
SavesOutputAlways(save_only_last, command_index, commands_len) == TRUE

\* whether the outputs of command command_index are recorded
SavesOutput(save_only_last, command_index, commands_len) ==
    ~save_only_last \/ command_index = commands_len - 1

\* the filenames of an output_filename that is a str or a list
OutputList(output_filename) ==
    IF output_filename.t = "str" THEN <<output_filename.v>> ELSE output_filename.v

\* Executor._handle_output_filename; acc.f is output_filenames and acc.b is
\* output_bamfiles
handle_output_filename(d, command_index, commands_len, organism, output_filename, acc) ==
    IF SavesOutput(d.save_only_last, command_index, commands_len)
    THEN RecordOutputs([i \in 1..Len(OutputList(output_filename)) |->
                           NormalizeOutput(OutputList(output_filename)[i])],
                       d.split_by_organism, organism, acc)
    ELSE acc

\* the name the filesystem knows a file by
AbsPath(f) == PathJoin(Cwd, f)

\* filename[:-4] + ".bai"
BaiFile(f) == SubSeq(f, 1, Len(f) - 1) \o <<".bai">>

RECURSIVE UnlinkAll(_, _, _)
\* the loop of _unlink_filename over the files; os.unlink raises when the
\* file does not exist, and what was deleted before stays deleted
UnlinkAll(files, files_on_disk, deleted) ==
    IF files = <<>> THEN [ok |-> TRUE, fs |-> files_on_disk, deleted |-> deleted]
    ELSE LET filename == Head(files)
             bai == BaiFile(filename)
             hasBai == Splitext1(filename) = <<".bam">> /\ AbsPath(bai) \in files_on_disk
         IN  IF AbsPath(filename) \notin files_on_disk
             THEN [ok |-> FALSE, fs |-> files_on_disk, deleted |-> deleted,
                   err |-> [type |-> "FileNotFoundError", msg |-> filename]]
             ELSE UnlinkAll(Tail(files),
                            files_on_disk \ ({AbsPath(filename)}
                                \cup IF hasBai THEN {AbsPath(bai)} ELSE {}),
                            deleted \o <<filename>> \o IF hasBai THEN <<bai>> ELSE <<>>)

\* a condition that ignores analysis.can_unlink; it differs from
\* UnlinkPermitted below
UnlinkPermittedOnRequest(unlink_inputs, analysis_can_unlink, analysis_run_fake) ==
    unlink_inputs /\ ~analysis_run_fake

\* a condition that ignores analysis.run_fake; it differs from
\* UnlinkPermitted below
UnlinkPermittedWhenFaked(unlink_inputs, analysis_can_unlink, analysis_run_fake) ==
    unlink_inputs /\ analysis_can_unlink

\* the condition of _unlink_filename
UnlinkPermitted(unlink_inputs, analysis_can_unlink, analysis_run_fake) ==
    unlink_inputs /\ analysis_can_unlink /\ ~analysis_run_fake

\* the files _unlink_filename deletes for (input_filename, real_input_filename)
FilesToUnlink(d, input_filename, real_input_filename) ==
    IF d.input_function # "None" THEN real_input_filename ELSE input_filename

(***************************************************************************)
(* Executor.__call__ as a state machine.                                   *)
(***************************************************************************)
NoneValue == [t |-> "None"]

\* the files a pipeline starts from
S1 == <<"P1", "-T", "-s1", ".", "hg", "19", ".R1", ".fastq">>
S2 == <<"P1", "-T", "-s1", ".", "hg", "19", ".R2", ".fastq">>
N1 == <<"P1", "-N", "-s1", ".", "hg", "19", ".R1", ".fastq">>
M1 == <<"P1", "-T", "-s1", ".", "mm", "10", ".R1", ".fastq">>
B1 == <<"P2", "-T", "-s1", ".bam">>
S1b == <<"P1", "-T", "-s1", ".", "hg", "19", ".R1", ".L2", ".fastq">>
S2b == <<"P1", "-T", "-s1", ".", "hg", "19", ".R2", ".L2", ".fastq">>
N1s2 == <<"P1", "-N", "-s2", ".", "hg", "19", ".R1", ".fastq">>
\* a filename that is no barcode
Raw1 == <<"raw", ".fastq">>

InitialFilenames == {<<S1, S2>>, <<S1, M1>>, <<B1>>}

\* the markers of what the calls did, kept for the properties
InitHist(unlink0) ==
    [pre |-> NoneValue,      \* the state of the analysis when the call began
     launched |-> <<>>,      \* the processes and callbacks run by the call
     faked |-> 0,            \* the commands faked by the call
     deleted |-> <<>>,       \* per unit, the files the call asked to delete
                             \* and those it deleted
     committed |-> FALSE,    \* whether a call has committed its outputs
     init_can_unlink |-> unlink0]

InitWith(filenames, normals) ==
    /\ last_operation_filenames \in
           {NoneValue} \cup {[t |-> "list", v |-> l] : l \in filenames}
    /\ can_unlink \in BOOLEAN
    /\ bamfiles = NoneValue
    /\ run_fake \in BOOLEAN
    /\ use_normals_param \in normals
    /\ fs = {AbsPath(f) : f \in Range(FlatFilenames(last_operation_filenames))}
              \cup {AbsPath(BaiFile(f)) :
                      f \in {g \in Range(FlatFilenames(last_operation_filenames)) :
                                Splitext1(g) = <<".bam">>}}
    /\ data = NoneValue
    /\ pc = "idle"
    /\ work = <<>>
    /\ ui = 0
    /\ unit = NoneValue
    /\ ci = 0
    /\ output_filenames = <<>>
    /\ output_bamfiles = <<>>
    /\ outcome = [t |-> "none"]
    /\ steps = 0
    /\ hist = InitHist(can_unlink)

\* the end of __call__ by an exception; at tells where it was raised
Abort(err) ==
    /\ pc' = "done"
    /\ outcome' = [t |-> "error", err |-> err, at |-> pc]

\* the parameters of input_function whose result _create_mod_input_filenames
\* keeps, for one organism
KeptParams(fn, analyses, input_split_reads) ==
    SelectSeq(Flatten([i \in 1..Len(analyses) |->
                  InputFunctionParams(analyses[i], input_split_reads)]),
              LAMBDA q : ~input_split_reads \/ Truthy(ApplyInputFunction(fn, q).v))

\* the files that were given to input_function to make each mod analysis of
\* one organism, in the order of ModAnalyses
ModFed(fn, analyses, input_split_reads) ==
    Bind(KeptParams(fn, analyses, input_split_reads), LAMBDA kept :
        IF input_split_reads
        THEN [i \in 1..Len(kept) |->
                 IF kept[i].list THEN kept[i].v ELSE <<kept[i].v>>]
        ELSE <<Flatten([i \in 1..Len(kept) |-> kept[i].v])>>)

\* the pairs of zip(current_input_filenames, current_mod_input_filenames),
\* or of the mod input with itself when the lengths differ
ZipPairs(current_input_filenames, current_mod_input_filenames, fed) ==
    IF Len(current_mod_input_filenames) = Len(current_input_filenames)
    THEN [i \in 1..Len(current_input_filenames) |->
            [inp |-> current_input_filenames[i],
             mod |-> current_mod_input_filenames[i],
             fed |-> fed[i]]]
    ELSE [i \in 1..Len(current_mod_input_filenames) |->
            [inp |-> current_mod_input_filenames[i],
             mod |-> current_mod_input_filenames[i],
             fed |-> fed[i]]]

\* the iterator of __call__ for one organism: (input, mod input) pairs
UnitPairs(d, current_input_filenames, current_mod_input_filenames) ==
    IF d.input_function # "None"
    THEN ZipPairs(current_input_filenames, current_mod_input_filenames,
                  ModFed(d.input_function, current_input_filenames,
                         d.input_split_reads))
    ELSE [i \in 1..Len(current_input_filenames) |->
             [inp |-> current_input_filenames[i], mod |-> <<>>,
              fed |-> current_input_filenames[i]]]

\* all the pairs __call__ iterates, organism by organism
AllPairs(d, input, mod) ==
    Flatten([i \in 1..Len(input) |->
        UnitPairs(d, input[i].v,
                  IF d.input_function # "None" THEN DictGet(mod, input[i].k) ELSE <<>>)])

\* __call__ up to its loop: the parameters are stored and the inputs resolved
StartStep(cfg) ==
    /\ pc = "idle"
    /\ steps < MaxSteps
    /\ steps' = steps + 1
    /\ data' = cfg
    /\ hist' = [hist EXCEPT !.pre = [last |-> last_operation_filenames,
                                     can_unlink |-> can_unlink,
                                     bamfiles |-> bamfiles,
                                     fs |-> fs]]
    /\ output_filenames' = <<>>
    /\ output_bamfiles' = <<>>
    /\ unit' = NoneValue
    /\ ci' = 0
    /\ \E r \in {get_input_filenames(cfg, last_operation_filenames,
                                       use_normals_param)} :
           IF ~r.ok
           THEN Abort(r.err) /\ work' = <<>> /\ ui' = 0
           ELSE \E pairs \in {AllPairs(cfg, r.input, r.mod)} :
                /\ work' = pairs
                /\ ui' = 1
                /\ pc' = IF pairs = <<>> THEN "commit" ELSE "unit"
                /\ outcome' = [t |-> "running"]
    /\ UNCHANGED <<engine, fs>>

\* the state after the current unit: the next unit, or the end of the loop
NextUnit ==
    /\ ui' = ui + 1
    /\ pc' = IF ui + 1 > Len(work) THEN "commit" ELSE "unit"

\* analysis_input of _handle_analysis for a pair
AnalysisInput(d, pair) == IF d.input_function # "None" THEN pair.mod ELSE pair.inp

\* a file_data that is the control of the analysis, else its sample; it
\* differs from FileData below
FileDataControlFirst(analysis_input) ==
    Bind(SingleAnalysis_control(analysis_input), LAMBDA control :
        IF control # <<>> THEN control ELSE SingleAnalysis_sample(analysis_input))

\* file_data of _handle_analysis: the sample of the analysis, else its
\* control, <<>> for None
FileData(analysis_input) ==
    Bind(SingleAnalysis_sample(analysis_input), LAMBDA sample :
        IF sample # <<>> THEN sample ELSE SingleAnalysis_control(analysis_input))

\* file_data.barcode.organism, <<>> when there is no file_data or no organism
BarcodeOrganism(file_data) ==
    IF file_data # <<>> THEN BarcodedFilename(file_data[1]).organism ELSE <<>>

\* all_params with output_filename, as _get_commands and _handle_command
\* see them
WithOutput(params, output_filename) ==
    params \o <<[k |-> "output_filename", v |-> OutputRepr(output_filename)]>>

\* what _handle_analysis has when its loop over the commands begins
UnitOf(pair, analysis_input, organism) ==
    [analysis_input |-> analysis_input,
     real_analysis_input |-> pair.inp,
     organism |-> organism,
     params |-> <<>>,
     output_filename |-> NoneValue,
     commands |-> <<>>,
     skipped |-> FALSE]

\* the commands of the unit once its output filename is known
UnitCommands(d, u, params, output) ==
    IF ~output.ok THEN [t |-> "raise", err |-> output.err]
    ELSE Bind(get_commands(d, WithOutput(params, output.v)), LAMBDA commands :
             IF ~commands.ok THEN [t |-> "raise", err |-> commands.err]
             ELSE [t |-> "run",
                   unit |-> [u EXCEPT !.output_filename = output.v,
                                      !.commands = commands.v,
                                      !.params = WithOutput(params, output.v)]])

\* _handle_analysis with the organism of its file_data
UnitWithOrganism(d, pair, analysis_input, barcode_organism) ==
    IF ~RunsCommands(d.only_human, barcode_organism)
    THEN [t |-> "skip",
          unit |-> [UnitOf(pair, analysis_input, barcode_organism)
                        EXCEPT !.skipped = TRUE]]
    ELSE Bind(UnitParams(barcode_organism, analysis_input), LAMBDA params :
             UnitCommands(d,
                 UnitOf(pair, analysis_input,
                        IF barcode_organism = <<>> THEN HumanAnnotation
                        ELSE barcode_organism),
                 params,
                 get_output_filename(d, params, analysis_input)))

\* a _handle_analysis without the assertion on file_data; it differs from
\* handle_analysis below
handle_analysis_unasserted(d, pair, analysis_input) ==
    UnitWithOrganism(d, pair, analysis_input,
                     BarcodeOrganism(FileData(analysis_input)))

\* _handle_analysis up to its loop: the organism of the unit, whether its
\* commands are run, its output filename and its commands
handle_analysis(d, pair, analysis_input) ==
    Bind(FileData(analysis_input), LAMBDA file_data :
        IF ~d.allow_raw_filenames /\ file_data = <<>>
        THEN [t |-> "raise", err |-> [type |-> "AssertionError", msg |-> <<>>]]
        ELSE UnitWithOrganism(d, pair, analysis_input, BarcodeOrganism(file_data)))

BeginUnit ==
    /\ pc = "unit"
    /\ \E r \in {handle_analysis(data, work[ui], AnalysisInput(data, work[ui]))} :
           CASE r.t = "raise" -> Abort(r.err) /\ UNCHANGED <<unit, ui>>
             [] r.t = "skip" -> /\ unit' = r.unit
                                /\ pc' = "unlink"
                                /\ UNCHANGED <<ui, outcome>>
             [] OTHER -> /\ unit' = r.unit
                         /\ pc' = "cmd"
                         /\ UNCHANGED <<ui, outcome>>
    /\ ci' = 0
    /\ UNCHANGED <<engine, fs, data, work, output_filenames, output_bamfiles,
                   steps, hist>>

\* the exit statuses a process can end with
ExitStatuses == {0, 2}

\* the results of commands that are run whatever analysis.run_fake says; it
\* differs from CommandResults below
CommandResultsOfRealRun(command, analysis_run_fake) ==
    IF command.t = "str"
    THEN {[status |-> st, raised |-> FALSE] : st \in ExitStatuses}
    ELSE {[status |-> 0, raised |-> b] : b \in BOOLEAN}

\* what running a command can give: the status of run_and_log for a str,
\* a return or an exception for a callback; a faked command gives status 0
CommandResults(command, analysis_run_fake) ==
    IF analysis_run_fake THEN {[status |-> 0, raised |-> FALSE]}
    ELSE IF command.t = "str"
    THEN {[status |-> st, raised |-> FALSE] : st \in ExitStatuses}
    ELSE {[status |-> 0, raised |-> b] : b \in BOOLEAN}

\* a test that takes every status for a success; it differs from
\* CommandFails below
CommandFailsNever(status) == FALSE

\* the test of _handle_command on the status
CommandFails(status) == status # 0

\* os.path.basename(self.data.command.split(" ")[0])
ArgZero(command) ==
    LET I == {i \in 1..Len(command) : command[i] = " "}
        n == IF I = {} THEN Len(command) ELSE (CHOOSE i \in I : \A j \in I : i <= j) - 1
    IN  Basename(SubSeq(command, 1, n))

\* str(status)
StatusRepr(status) == IF status = 0 THEN <<"0">> ELSE <<"2">>

\* error_string and exception_string with their defaults
ErrorString(d, arg_zero, status) ==
    IF d.error_string = PyNone
    THEN arg_zero \o <<" exited with status ">> \o StatusRepr(status)
    ELSE d.error_string

ExceptionString(d, arg_zero) ==
    IF d.exception_string = PyNone THEN arg_zero \o <<" error">>
    ELSE d.exception_string

\* the exception raised once both strings have been resolved
RaisedError(e1, e2) ==
    IF ~e1.ok THEN e1.err
    ELSE IF ~e2.ok THEN e2.err
    ELSE [type |-> "PipelineError", msg |-> e2.v]

\* the exception _handle_command raises for a status that is not 0
CommandError(d, params, status) ==
    IF d.command.t # "str" THEN [type |-> "AssertionError", msg |-> <<>>]
    ELSE Bind(params \o <<[k |-> "status", v |-> StatusRepr(status)]>>, LAMBDA scope :
             RaisedError(
                 ResolveError(ErrorString(d, ArgZero(d.command.v), status), scope),
                 ResolveError(ExceptionString(d, ArgZero(d.command.v)), scope)))

\* the files a command that succeeds has written: its output filenames
OutputNames(o) ==
    CASE o.t = "None" -> {}
      [] o.t = "str" -> {AbsPath(o.v)}
      [] OTHER -> {AbsPath(o.v[i]) : i \in 1..Len(o.v)}

\* an iteration that sets analysis.can_unlink before the call has ended; it
\* differs from HandleCommand below
HandleCommandGranting ==
    /\ pc = "cmd"
    /\ \E res \in CommandResults(unit.commands[ci + 1], run_fake) :
        /\ hist' = IF run_fake THEN [hist EXCEPT !.faked = @ + 1]
                   ELSE [hist EXCEPT !.launched =
                            Append(@, [u |-> ui, c |-> ci, status |-> res.status,
                                       raised |-> res.raised])]
        /\ IF res.raised
           THEN /\ Abort([type |-> "CallbackError", msg |-> <<>>])
                /\ UNCHANGED <<ci, output_filenames, output_bamfiles, fs>>
           ELSE IF CommandFails(res.status)
           THEN /\ Abort(CommandError(data, unit.params, res.status))
                /\ UNCHANGED <<ci, output_filenames, output_bamfiles, fs>>
           ELSE /\ \E acc \in {IF OutputTruthy(unit.output_filename)
                                THEN handle_output_filename(data, ci,
                                         Len(unit.commands), unit.organism,
                                         unit.output_filename,
                                         [f |-> output_filenames,
                                          b |-> output_bamfiles])
                                ELSE [f |-> output_filenames,
                                      b |-> output_bamfiles]} :
                       /\ output_filenames' = acc.f
                       /\ output_bamfiles' = acc.b
                /\ fs' = IF run_fake THEN fs
                         ELSE fs \cup OutputNames(unit.output_filename)
                /\ ci' = ci + 1
                /\ pc' = IF ci + 1 = Len(unit.commands) THEN "unlink" ELSE "cmd"
                /\ UNCHANGED outcome
    /\ can_unlink' = TRUE
    /\ UNCHANGED <<last_operation_filenames, bamfiles, run_fake,
                   use_normals_param, data, work, ui, unit, steps>>

\* one iteration of the loop of _handle_analysis over the commands:
\* _handle_command, then _handle_output_filename
HandleCommand ==
    /\ pc = "cmd"
    /\ \E res \in CommandResults(unit.commands[ci + 1], run_fake) :
        /\ hist' = IF run_fake THEN [hist EXCEPT !.faked = @ + 1]
                   ELSE [hist EXCEPT !.launched =
                            Append(@, [u |-> ui, c |-> ci, status |-> res.status,
                                       raised |-> res.raised])]
        /\ IF res.raised
           THEN /\ Abort([type |-> "CallbackError", msg |-> <<>>])
                /\ UNCHANGED <<ci, output_filenames, output_bamfiles, fs>>
           ELSE IF CommandFails(res.status)
           THEN /\ Abort(CommandError(data, unit.params, res.status))
                /\ UNCHANGED <<ci, output_filenames, output_bamfiles, fs>>
           ELSE /\ \E acc \in {IF OutputTruthy(unit.output_filename)
                                THEN handle_output_filename(data, ci,
                                         Len(unit.commands), unit.organism,
                                         unit.output_filename,
                                         [f |-> output_filenames,
                                          b |-> output_bamfiles])
                                ELSE [f |-> output_filenames,
                                      b |-> output_bamfiles]} :
                       /\ output_filenames' = acc.f
                       /\ output_bamfiles' = acc.b
                /\ fs' = IF run_fake THEN fs
                         ELSE fs \cup OutputNames(unit.output_filename)
                /\ ci' = ci + 1
                /\ pc' = IF ci + 1 = Len(unit.commands) THEN "unlink" ELSE "cmd"
                /\ UNCHANGED outcome
    /\ UNCHANGED <<engine, data, work, ui, unit, steps>>

\* the end of _handle_analysis: _unlink_filename(analysis_input,
\* real_analysis_input)
UnlinkFilename ==
    /\ pc = "unlink"
    /\ \E files \in {IF UnlinkPermitted(data.unlink_inputs, can_unlink, run_fake)
                      THEN FilesToUnlink(data, unit.analysis_input,
                                         unit.real_analysis_input)
                      ELSE <<>>} :
       \E r \in {UnlinkAll(files, fs, <<>>)} :
           /\ fs' = r.fs
           /\ hist' = [hist EXCEPT
                          !.deleted = Append(@, [u |-> ui, asked |-> files,
                                                 files |-> r.deleted])]
           /\ IF r.ok THEN NextUnit /\ UNCHANGED outcome
              ELSE Abort(r.err) /\ UNCHANGED ui
    /\ UNCHANGED <<engine, data, work, unit, ci, output_filenames,
                   output_bamfiles, steps>>

\* a commit that keeps the filenames of the state before the call next to
\* the outputs; it differs from CommitState below
CommitStateMerged(override_last_files, current, outputs) ==
    IF override_last_files
    THEN [t |-> "dict", v |-> DictAppendAll(outputs, <<>>, FlatFilenames(current))]
    ELSE current

\* a commit that ignores override_last_files; it differs from CommitState
\* below
CommitStateAlways(override_last_files, current, outputs) ==
    [t |-> "dict", v |-> outputs]

\* what the end of __call__ assigns to analysis.last_operation_filenames
CommitState(override_last_files, current, outputs) ==
    IF override_last_files THEN [t |-> "dict", v |-> outputs] ELSE current

\* an end of __call__ that sets analysis.can_unlink to override_last_files;
\* it differs from CommitCanUnlink below
CommitCanUnlinkAssigned(override_last_files, current) == override_last_files

\* what the end of __call__ assigns to analysis.can_unlink
CommitCanUnlink(override_last_files, current) ==
    IF override_last_files THEN TRUE ELSE current

\* an end of __call__ that assigns the accumulator whatever write_bam_files
\* is; it differs from CommitBamfiles below
CommitBamfilesAlways(write_bam_files, current, outputs) ==
    IF Len(outputs) # 0 THEN [t |-> "dict", v |-> outputs] ELSE current

\* what the end of __call__ assigns to analysis.bamfiles
CommitBamfiles(write_bam_files, current, outputs) ==
    IF write_bam_files /\ Len(outputs) # 0 THEN [t |-> "dict", v |-> outputs]
    ELSE current

\* the end of __call__, after the loop over the organisms
Commit ==
    /\ pc = "commit"
    /\ last_operation_filenames' =
           CommitState(data.override_last_files, last_operation_filenames,
                       output_filenames)
    /\ can_unlink' = CommitCanUnlink(data.override_last_files, can_unlink)
    /\ bamfiles' = CommitBamfiles(data.write_bam_files, bamfiles, output_bamfiles)
    /\ hist' = [hist EXCEPT !.committed = @ \/ data.override_last_files]
    /\ pc' = "done"
    /\ outcome' = [t |-> "ok"]
    /\ UNCHANGED <<run_fake, use_normals_param, fs, data, work, ui, unit, ci,
                   output_filenames, output_bamfiles, steps>>

\* the return to the caller: the locals of the call are gone, and
\* Executor.data is overwritten by the next call before it is read
Return ==
    /\ pc = "done"
    /\ pc' = "idle"
    /\ data' = NoneValue
    /\ work' = <<>>
    /\ ui' = 0
    /\ unit' = NoneValue
    /\ ci' = 0
    /\ output_filenames' = <<>>
    /\ output_bamfiles' = <<>>
    /\ outcome' = [t |-> "none"]
    /\ hist' = [hist EXCEPT !.pre = NoneValue, !.launched = <<>>, !.faked = 0,
                            !.deleted = <<>>]
    /\ UNCHANGED <<engine, fs, steps>>

(***************************************************************************)
(* The calls the pipelines make.                                           *)
(***************************************************************************)
\* the defaults of the parameters of __call__
DefaultConfig ==
    [command |-> [t |-> "str", v |-> <<"tool">>],
     output_format |-> NoneValue,
     input_filenames |-> NoneValue,
     input_function |-> "None",
     input_split_reads |-> TRUE,
     output_path |-> PyNone,
     output_function |-> "None",
     error_string |-> PyNone,
     exception_string |-> PyNone,
     override_last_files |-> TRUE,
     write_bam_files |-> TRUE,
     unlink_inputs |-> FALSE,
     save_only_last |-> TRUE,
     use_normals |-> FALSE,
     split_by_organism |-> FALSE,
     only_human |-> FALSE,
     split_input_files |-> TRUE,
     allow_raw_filenames |-> FALSE]

CommandStr == [t |-> "str", v |-> <<"tool", " ", "{", "input_filename", "}">>]

CommandList ==
    [t |-> "list",
     v |-> << <<"tool", " ", "{", "input_filename", "}">>,
              <<"/", "bin", "/", "tool2", " ", "{", "organism_str", "}">> >>]

CommandCallable == [t |-> "callable", v |-> "callback"]

Commands == {CommandStr, CommandList, CommandCallable}

\* f("{self.analysis.basename}{{organism_str}}.bam")
OutputFormatBam ==
    [t |-> "str", v |-> <<"P1", "-T", "-s1", "{", "organism_str", "}", ".bam">>]

OutputFormats == {NoneValue, OutputFormatBam}

\* error_string and exception_string as a caller gives them
ErrorStringCustom == <<"tool exited with status ", "{", "status", "}">>

ExceptionStringCustom == <<"tool error ", "{", "status", "}">>

\* the calls of the pipeline: one command with every combination of the
\* flags, a list of commands, and the caller's failure texts, one of which
\* names the first input file
StepConfigs ==
    {[DefaultConfig EXCEPT !.command = c, !.output_format = o,
                           !.override_last_files = ov, !.unlink_inputs = un,
                           !.only_human = oh, !.split_by_organism = so] :
        c \in {CommandStr, CommandCallable}, o \in OutputFormats,
        ov \in BOOLEAN, un \in BOOLEAN, oh \in BOOLEAN, so \in BOOLEAN}
    \cup
    {[DefaultConfig EXCEPT !.command = CommandList, !.output_format = o,
                           !.override_last_files = ov, !.unlink_inputs = un,
                           !.save_only_last = sl] :
        o \in OutputFormats, ov \in BOOLEAN, un \in BOOLEAN, sl \in BOOLEAN}
    \cup
    {[DefaultConfig EXCEPT !.command = c, !.output_format = OutputFormatBam,
                           !.error_string = ErrorStringCustom,
                           !.exception_string = es,
                           !.save_only_last = sl] :
        c \in {CommandStr, CommandList}, sl \in BOOLEAN,
        es \in {ExceptionStringCustom,
                <<"tool error ", "{", "status", "}", " ", "{",
                  "input_filenames[0]", "}">>}}
    \cup
    \* a command whose program is given with its directory
    {[DefaultConfig EXCEPT !.command =
                               [t |-> "str",
                                v |-> <<"/", "bin", "/", "tool", " ", "{",
                                        "input_filename", "}">>],
                           !.output_format = o] :
        o \in OutputFormats}

Init == InitWith(InitialFilenames, {FALSE})

Next ==
    \/ \E cfg \in StepConfigs : StartStep(cfg)
    \/ BeginUnit
    \/ HandleCommand
    \/ UnlinkFilename
    \/ Commit
    \/ Return

Spec == Init /\ [][Next]_vars

(***************************************************************************)
(* The calls with an input_function.                                       *)
(***************************************************************************)
TransformFilenames == {<<>>, <<S1, S2>>, <<S1, M1>>, <<S1, S1b, S2, S2b>>}

TransformConfigs ==
    {[DefaultConfig EXCEPT !.command = CommandStr,
                           !.output_format = OutputFormatBam,
                           !.input_function = fn,
                           !.input_split_reads = sr,
                           !.split_input_files = sf,
                           !.split_by_organism = so,
                           !.unlink_inputs = un,
                           !.allow_raw_filenames = raw] :
        fn \in InputFunctions, sr \in BOOLEAN, sf \in BOOLEAN, so \in BOOLEAN,
        un \in BOOLEAN, raw \in BOOLEAN}
    \cup
    \* Mapping.cutadapt: the reads of an organism in one command that writes
    \* "....clipped.R%d.fastq" % 1 and % 2
    {[DefaultConfig EXCEPT !.command = c,
                           !.output_format =
                               [t |-> "str",
                                v |-> <<"P1", "-T", "-s1", "{", "organism_str", "}",
                                        ".clipped", ".R", "%d", ".fastq">>],
                           !.input_function = fn,
                           !.input_split_reads = FALSE,
                           !.split_by_organism = so,
                           !.unlink_inputs = un,
                           !.output_function = "reads"] :
        c \in {CommandStr, DefaultConfig.command},
        fn \in {"None", "join"}, so \in BOOLEAN, un \in BOOLEAN}

InitTransform == InitWith(TransformFilenames, {FALSE})

NextTransform ==
    \/ \E cfg \in TransformConfigs : StartStep(cfg)
    \/ BeginUnit
    \/ HandleCommand
    \/ UnlinkFilename
    \/ Commit
    \/ Return

SpecTransform == InitTransform /\ [][NextTransform]_vars

(***************************************************************************)
(* The calls that pair the samples with their normals.                     *)
(***************************************************************************)
NormalsFilenames ==
    {<<S1, N1>>, <<N1, S1>>, <<S1, S2>>, <<N1, S1, M1>>,
     <<S1, N1, N1s2>>, <<S1, N1s2, N1>>, <<N1, S1, N1s2>>,
     <<N1s2, S1, N1>>, <<N1, N1s2, S1>>, <<N1s2, N1, S1>>,
     <<S1, Raw1>>, <<N1, M1>>, <<S1, S2, N1>>}

NormalsConfigs ==
    {[DefaultConfig EXCEPT !.command = c,
                           !.use_normals = nr,
                           !.input_split_reads = sr,
                           !.split_by_organism = so,
                           !.unlink_inputs = un,
                           !.override_last_files = ov] :
        c \in {CommandStr, CommandCallable}, nr \in BOOLEAN, sr \in BOOLEAN,
        so \in BOOLEAN, un \in BOOLEAN, ov \in BOOLEAN}
    \cup
    \* the pairing of the files of an organism that come as one unit
    {[DefaultConfig EXCEPT !.command = CommandCallable,
                           !.use_normals = TRUE,
                           !.split_input_files = FALSE,
                           !.input_split_reads = sr,
                           !.split_by_organism = so] :
        sr \in BOOLEAN, so \in BOOLEAN}

InitNormals == InitWith(NormalsFilenames, BOOLEAN)

NextNormals ==
    \/ \E cfg \in NormalsConfigs : StartStep(cfg)
    \/ BeginUnit
    \/ HandleCommand
    \/ UnlinkFilename
    \/ Commit
    \/ Return

SpecNormals == InitNormals /\ [][NextNormals]_vars

(***************************************************************************)
(* The calls that try the templates and the sources of the input.          *)
(***************************************************************************)
\* commands as callers write them: without a placeholder ("{}" is none),
\* with the output filename, with the first input file, and a list whose
\* second command names a variable that does not exist
CommandTemplates ==
    {CommandStr, CommandList,
     [t |-> "str", v |-> <<"tool", " ", "{", "}">>],
     [t |-> "str", v |-> <<"tool", " ", "{", "output_filename", "}">>],
     [t |-> "str", v |-> <<"tool", " ", "{", "input_filenames[0]", "}">>],
     [t |-> "list",
      v |-> << <<"tool", " ", "{", "input_filename", "}">>,
               <<"tool", " ", "{", "nosuch", "}">> >>]}

\* output formats: none, with organism_str, without a placeholder, with a
\* variable that does not exist, with the first input file, and a list of
\* two formats of which one is of a .bam file
OutputTemplates ==
    {NoneValue, OutputFormatBam,
     [t |-> "str", v |-> <<"P2", "-T", "-s1", ".bam">>],
     [t |-> "str", v |-> <<"{", "nosuch", "}", ".out">>],
     [t |-> "str", v |-> <<"{", "input_filenames[0]", "}", ".out">>],
     [t |-> "list",
      v |-> << <<"P1", "-T", "-s1", "{", "organism_str", "}", ".sam">>,
               <<"P1", "-T", "-s1", "{", "organism_str", "}", ".bam">> >>]}

ResolveFilenames == {<<S1, S2>>, <<B1>>}

\* every command with every output format; the calls with and without
\* input_filenames, an empty list included, whose output is named without a
\* directory, in "." or in a directory; the calls on all the files at
\* once, a raw file and a file of a tissue that is neither tumor nor normal
\* included; the groupings of the files of two organisms, for a program and
\* for a callback
ResolveConfigs ==
    {[DefaultConfig EXCEPT !.command = c, !.output_format = o,
                           !.input_split_reads = sr] :
        c \in CommandTemplates, o \in OutputTemplates, sr \in BOOLEAN}
    \cup
    {[DefaultConfig EXCEPT !.input_filenames = i, !.output_format = o,
                           !.write_bam_files = wb, !.override_last_files = ov] :
        i \in {NoneValue, [t |-> "list", v |-> <<S2>>], [t |-> "list", v |-> <<>>]},
        o \in {NoneValue, OutputFormatBam,
               [t |-> "str", v |-> <<".", "/", "P1", "-T", "-s1", ".bam">>],
               [t |-> "str", v |-> <<"REPORTS", "/", "P1", "-T", "-s1", ".bam">>]},
        wb \in BOOLEAN, ov \in BOOLEAN}
    \cup
    {[DefaultConfig EXCEPT !.input_filenames = i, !.output_format = OutputFormatBam,
                           !.split_input_files = FALSE,
                           !.allow_raw_filenames = raw] :
        i \in {NoneValue, [t |-> "list", v |-> <<S2>>], [t |-> "list", v |-> <<>>],
               [t |-> "list", v |-> <<Raw1>>],
               [t |-> "list", v |-> << <<"P1", "-X", "-s1", ".", "mm", "10", ".bam">> >>]},
        raw \in BOOLEAN}
    \cup
    {[DefaultConfig EXCEPT !.command = c,
                           !.input_filenames = i,
                           !.split_input_files = sf,
                           !.split_by_organism = so,
                           !.input_split_reads = sr] :
        c \in {DefaultConfig.command, CommandCallable},
        i \in {NoneValue, [t |-> "list", v |-> <<S1, M1, S2>>]},
        sf \in BOOLEAN, so \in BOOLEAN, sr \in BOOLEAN}

InitResolve == InitWith(ResolveFilenames, {FALSE})

NextResolve ==
    \/ \E cfg \in ResolveConfigs : StartStep(cfg)
    \/ BeginUnit
    \/ HandleCommand
    \/ UnlinkFilename
    \/ Commit
    \/ Return

SpecResolve == InitResolve /\ [][NextResolve]_vars

(***************************************************************************)
(* Executor.override_last_operation_filename.  The states it is tried on   *)
(* are of every shape it tells apart; an entry of a dict whose value is    *)
(* not a list has a field vt that names the type of the value.             *)
(***************************************************************************)
\* the type of the value of an entry of a dict
EntryType(entry) == IF "vt" \in DOMAIN entry THEN entry.vt ELSE "list"

\* bool(obj) of a last_operation_filenames value
TruthyState(obj) ==
    CASE obj.t = "None" -> FALSE
      [] obj.t = "int" -> obj.v # 0
      [] OTHER -> obj.v # <<>>

\* a replacement that does not look at the number of filenames of a list; it
\* differs from OverriddenFilenames below
OverriddenFilenamesUncounted(last, new_filename) ==
    IF ~TruthyState(last)
    THEN PipelineError(<<"last operation did not leave an output file">>)
    ELSE IF last.t = "str" THEN [ok |-> TRUE, v |-> [t |-> "str", v |-> new_filename]]
    ELSE IF last.t = "list"
    THEN [ok |-> TRUE, v |-> [last EXCEPT !.v[1] = new_filename]]
    ELSE PipelineError(<<"last operation created an invalid object">>)

\* the body of override_last_operation_filename: ok with the new value of
\* analysis.last_operation_filenames, or the exception
OverriddenFilenames(last, new_filename) ==
    IF ~TruthyState(last)
    THEN PipelineError(<<"last operation did not leave an output file">>)
    ELSE IF last.t = "str" THEN [ok |-> TRUE, v |-> [t |-> "str", v |-> new_filename]]
    ELSE IF last.t = "list"
    THEN IF Len(last.v) # 1
         THEN PipelineError(<<"last operation created a list with a number of ",
                              "output files different than one">>)
         ELSE [ok |-> TRUE, v |-> [last EXCEPT !.v[1] = new_filename]]
    ELSE IF last.t = "dict"
    THEN IF Len(last.v) # 1
         THEN PipelineError(<<"last operation created a dict using more than ",
                              "one organism">>)
         ELSE IF EntryType(last.v[1]) = "str"
         THEN [ok |-> TRUE, v |-> [last EXCEPT !.v[1].v = new_filename]]
         ELSE IF EntryType(last.v[1]) = "list"
         THEN IF Len(last.v[1].v) # 1
              THEN PipelineError(<<"last operation created a dict of lists with ",
                                   "one list, but the list contains a number of ",
                                   "filenames different than one">>)
              ELSE [ok |-> TRUE, v |-> [last EXCEPT !.v[1].v[1] = new_filename]]
         ELSE PipelineError(<<"last operation created an invalid dict">>)
    ELSE PipelineError(<<"last operation created an invalid object">>)

\* Executor.override_last_operation_filename(new_filename)
override_last_operation_filename(new_filename) ==
    /\ pc = "idle"
    /\ steps < MaxSteps
    /\ steps' = steps + 1
    /\ hist' = [hist EXCEPT !.pre = [last |-> last_operation_filenames,
                                     can_unlink |-> can_unlink,
                                     bamfiles |-> bamfiles,
                                     fs |-> fs,
                                     new_filename |-> new_filename]]
    /\ \E r \in {OverriddenFilenames(last_operation_filenames, new_filename)} :
           IF r.ok
           THEN /\ last_operation_filenames' = r.v
                /\ pc' = "done"
                /\ outcome' = [t |-> "ok"]
           ELSE /\ Abort(r.err)
                /\ UNCHANGED last_operation_filenames
    /\ UNCHANGED <<can_unlink, bamfiles, run_fake, use_normals_param, fs, data,
                   work, ui, unit, ci, output_filenames, output_bamfiles>>

\* the values of analysis.last_operation_filenames the function is called
\* with: None, strings, lists, dicts of lists as __call__ leaves them, dicts
\* of a string, of None, and an object of another type
OverrideStates ==
    {NoneValue,
     [t |-> "str", v |-> <<>>], [t |-> "str", v |-> S1],
     [t |-> "list", v |-> <<>>], [t |-> "list", v |-> <<S1>>],
     [t |-> "list", v |-> <<S1, S2>>],
     [t |-> "dict", v |-> <<>>],
     [t |-> "dict", v |-> <<[k |-> <<>>, v |-> <<B1>>]>>],
     [t |-> "dict", v |-> <<[k |-> <<"hg", "19">>, v |-> <<S1>>]>>],
     [t |-> "dict", v |-> <<[k |-> <<"hg", "19">>, v |-> <<>>]>>],
     [t |-> "dict", v |-> <<[k |-> <<"hg", "19">>, v |-> <<S1, S2>>]>>],
     [t |-> "dict", v |-> <<[k |-> <<"hg", "19">>, v |-> <<S1>>],
                            [k |-> <<"mm", "10">>, v |-> <<M1>>]>>],
     [t |-> "dict", v |-> <<[k |-> <<"hg", "19">>, v |-> <<S1>>],
                            [k |-> <<"mm", "10">>, v |-> <<>>]>>],
     [t |-> "dict", v |-> <<[k |-> <<"hg", "19">>, v |-> S1, vt |-> "str"]>>],
     [t |-> "dict", v |-> <<[k |-> <<"hg", "19">>, v |-> <<>>, vt |-> "str"]>>],
     [t |-> "dict", v |-> <<[k |-> <<"hg", "19">>, v |-> PyNone, vt |-> "None"]>>],
     [t |-> "int", v |-> 0], [t |-> "int", v |-> 1]}

\* the filenames of a value of any of the shapes
StateFilenames(obj) ==
    CASE obj.t = "str" -> {obj.v} \ {<<>>}
      [] obj.t = "list" -> Range(obj.v)
      [] obj.t = "dict" ->
             UNION {IF EntryType(obj.v[i]) = "list" THEN Range(obj.v[i].v)
                    ELSE IF EntryType(obj.v[i]) = "str" THEN {obj.v[i].v} \ {<<>>}
                    ELSE {} : i \in 1..Len(obj.v)}
      [] OTHER -> {}

InitOverride ==
    /\ last_operation_filenames \in OverrideStates
    /\ can_unlink \in BOOLEAN
    /\ bamfiles = NoneValue
    /\ run_fake \in BOOLEAN
    /\ use_normals_param = FALSE
    /\ fs = {AbsPath(f) : f \in StateFilenames(last_operation_filenames)}
    /\ data = NoneValue
    /\ pc = "idle"
    /\ work = <<>>
    /\ ui = 0
    /\ unit = NoneValue
    /\ ci = 0
    /\ output_filenames = <<>>
    /\ output_bamfiles = <<>>
    /\ outcome = [t |-> "none"]
    /\ steps = 0
    /\ hist = InitHist(can_unlink)

NextOverride ==
    \/ \E new_filename \in {B1, <<"P1", "-T", "-s1", ".out">>} :
           override_last_operation_filename(new_filename)
    \/ Return

SpecOverride == InitOverride /\ [][NextOverride]_vars

(***************************************************************************)
(* Properties of Executor.__call__.                                        *)
(***************************************************************************)
\* the files of a last_operation_filenames value
FilesOf(obj) == Range(FlatFilenames(obj))

\* C1: when a call with override_last_files = true has completed,
\* analysis.last_operation_filenames is exactly the call's output_filenames
\* dict, whatever it held before: nothing of the prior value is merged in.
C1_OverrideReplaces ==
    (pc = "done" /\ outcome.t = "ok" /\ data.override_last_files)
        => /\ last_operation_filenames = [t |-> "dict", v |-> output_filenames]
           /\ \A f \in FilesOf(hist.pre.last) :
                  f \in FilesOf(last_operation_filenames)
                      => f \in Range(DictValues(output_filenames))

\* a call that overrides a prior value none of whose files it produced again
C1_Witness ==
    /\ pc = "done" /\ outcome.t = "ok" /\ data.override_last_files
    /\ output_filenames # <<>>
    /\ FilesOf(hist.pre.last) # {}
    /\ FilesOf(hist.pre.last) \cap FilesOf(last_operation_filenames) = {}

\* C2: a call with override_last_files = false leaves
\* analysis.last_operation_filenames as it was when the call began, whatever
\* the other flags are, whatever the commands output and however the call ends.
C2_NoOverrideKeepsState ==
    (pc = "done" /\ ~data.override_last_files)
        => last_operation_filenames = hist.pre.last

\* a call without override that recorded outputs and completed
C2_Witness ==
    /\ pc = "done" /\ outcome.t = "ok" /\ ~data.override_last_files
    /\ output_filenames # <<>>
    /\ hist.pre.last.t # "None"
    /\ last_operation_filenames = hist.pre.last

\* C3: from an analysis whose can_unlink is FALSE, no file is deleted before
\* a call with override_last_files = true has completed: no call before that
\* one, and not that call itself, deletes any of its inputs, even when called
\* with unlink_inputs = true.
C3_NoDeletionBeforeFirstCommit ==
    (~hist.init_can_unlink /\ ~hist.committed)
        => /\ ~can_unlink
           /\ \A i \in 1..Len(hist.deleted) : hist.deleted[i].files = <<>>
           /\ pc # "idle" => hist.pre.fs \subseteq fs

\* the second call, the first one to override, has gone through the
\* deletion of a unit's inputs with unlink_inputs = true
C3_Witness ==
    /\ ~hist.init_can_unlink /\ ~hist.committed
    /\ steps = 2 /\ pc = "commit"
    /\ data.unlink_inputs /\ data.override_last_files /\ ~run_fake
    /\ hist.deleted # <<>>

\* the organism of the unit at hand
CurrentOrganism == BarcodeOrganism(FileData(AnalysisInput(data, work[ui])))

\* an organism that is given and is not a human genome
NonHuman(organism) == organism # <<>> /\ Head(organism) # "hg"

\* in a call with only_human = true a unit of a non-human organism has no
\* commands, and any other unit is the unit of a call with only_human = false
C4_OnlyHumanState ==
    (pc \in {"cmd", "unlink"} /\ data.only_human)
        => IF NonHuman(CurrentOrganism)
           THEN /\ pc = "unlink"
                /\ unit.commands = <<>>
                /\ \A i \in 1..Len(hist.launched) : hist.launched[i].u # ui
           ELSE unit = handle_analysis([data EXCEPT !.only_human = FALSE],
                                       work[ui], AnalysisInput(data, work[ui])).unit

\* handling a unit of a non-human organism starts no command and records
\* no output
C4_OnlyHumanStep ==
    (pc \in {"unit", "unlink"} /\ data.only_human /\ NonHuman(CurrentOrganism))
        => /\ pc' # "cmd"
           /\ output_filenames' = output_filenames
           /\ output_bamfiles' = output_bamfiles
           /\ hist'.launched = hist.launched
           /\ hist'.faked = hist.faked

\* C4: with only_human = true, a unit whose organism is given and does not
\* start with "hg" runs no command (no process, no callback, nothing faked)
\* and adds nothing to output_filenames and output_bamfiles; a unit whose
\* organism is not given or starts with "hg" is handled as with
\* only_human = false.
C4_OnlyHuman == []C4_OnlyHumanState /\ [][C4_OnlyHumanStep]_vars

\* a unit of organism mm10 has been skipped in a call with only_human = true
C4_Witness ==
    /\ pc = "unlink" /\ data.only_human /\ unit.skipped
    /\ NonHuman(CurrentOrganism)

\* a unit of organism hg19 runs its commands in a call with only_human = true
C4_WitnessHuman ==
    /\ pc = "unlink" /\ data.only_human /\ ~unit.skipped
    /\ CurrentOrganism # <<>> /\ output_filenames # <<>>

\* the processes and callbacks the call has run for the unit at hand
LaunchedOfUnit == SelectSeq(hist.launched, LAMBDA e : e.u = ui)

\* the exception string of the call for a command, resolved for a status
ResolvedExceptionString(command, status) ==
    ResolveError(ExceptionString(data, ArgZero(command)),
                 unit.params \o <<[k |-> "status", v |-> StatusRepr(status)]>>)

\* the first unit of a call whose command is a list of two strings has run
\* both: the first ended with status 0, the second with status 2
C5_Scenario ==
    /\ pc = "done"
    /\ data.command.t = "list" /\ Len(data.command.v) = 2
    /\ ui = 1
    /\ hist.launched = <<[u |-> 1, c |-> 0, status |-> 0, raised |-> FALSE],
                         [u |-> 1, c |-> 1, status |-> 2, raised |-> FALSE]>>

\* C5: when command is a list of two templated strings, the first process
\* exits with status 0 and the second with status 2, the call raises
\* PipelineError with the resolved exception string of the second command,
\* and with save_only_last = true no output filename has been recorded.
C5_ListFailureRaisesPipelineError ==
    C5_Scenario
        => /\ outcome.t = "error"
           /\ outcome.err.type = "PipelineError"
           /\ outcome.err.msg = ResolvedExceptionString(data.command.v[2], 2).v
           /\ data.save_only_last => output_filenames = <<>>

\* what the call does instead: the assertion that data.command is a str
\* fails; with save_only_last = true no output filename has been recorded
C5_ListFailureAsserts ==
    C5_Scenario
        => /\ outcome.t = "error"
           /\ outcome.err.type = "AssertionError"
           /\ data.save_only_last => output_filenames = <<>>

\* C6: within a unit a command is started only after the command before it
\* has ended with status 0 and without raising; once a command has failed,
\* nothing more is started, the deletion of the inputs of its unit does not
\* take place, and the call ends without assigning
\* last_operation_filenames, can_unlink or bamfiles.
C6_AbortsAtFirstFailure ==
    /\ \A i \in 1..Len(hist.launched) :
           LET e == hist.launched[i]
           IN  /\ e.c > 0 => /\ i > 1
                             /\ hist.launched[i - 1] =
                                    [u |-> e.u, c |-> e.c - 1, status |-> 0,
                                     raised |-> FALSE]
               /\ (e.status # 0 \/ e.raised)
                      => /\ i = Len(hist.launched)
                         /\ pc = "done"
                         /\ outcome.t = "error" /\ outcome.at = "cmd"
                         /\ ui = e.u /\ ci = e.c
                         /\ \A j \in 1..Len(hist.deleted) : hist.deleted[j].u # e.u
    /\ (pc = "done" /\ outcome.t = "error")
           => /\ last_operation_filenames = hist.pre.last
              /\ can_unlink = hist.pre.can_unlink
              /\ bamfiles = hist.pre.bamfiles

\* the second unit's command fails in a call that deletes its inputs: the
\* first unit's inputs are gone, the second's are not
C6_Witness ==
    /\ pc = "done" /\ outcome.t = "error" /\ outcome.at = "cmd"
    /\ ui = 2
    /\ data.unlink_inputs /\ data.override_last_files
    /\ Len(hist.deleted) = 1 /\ hist.deleted[1].files # <<>>

\* C7: when deletion is permitted and an input file of a unit is no longer
\* on the filesystem, the call does not fail: the other input files of the
\* unit are deleted and the call ends as one whose files were all there.
C7_MissingInputIsNotAnError ==
    (/\ pc \in {"unit", "commit", "done"}
     /\ hist.deleted # <<>>
     /\ UnlinkPermitted(data.unlink_inputs, hist.pre.can_unlink, run_fake)
     /\ \E f \in Range(FilesToUnlink(data, unit.analysis_input,
                                     unit.real_analysis_input)) :
            AbsPath(f) \notin hist.pre.fs)
        => ~(outcome.t = "error" /\ outcome.at = "unlink")

\* a faked call has started nothing, has not failed at a command, and
\* commits as a call whose commands succeeded
C9_FakeState ==
    run_fake
        => /\ hist.launched = <<>>
           /\ outcome.t = "error" => outcome.at # "cmd"
           /\ (pc = "done" /\ outcome.t = "ok")
                  => /\ last_operation_filenames =
                            CommitState(data.override_last_files, hist.pre.last,
                                        output_filenames)
                     /\ can_unlink =
                            CommitCanUnlink(data.override_last_files,
                                            hist.pre.can_unlink)

\* a faked command is counted, touches no file and is followed by the
\* recording of its outputs
C9_FakeStep ==
    (run_fake /\ pc = "cmd")
        => /\ ci' = ci + 1
           /\ pc' = IF ci' = Len(unit.commands) THEN "unlink" ELSE "cmd"
           /\ hist'.faked = hist.faked + 1
           /\ fs' = fs
           /\ [f |-> output_filenames', b |-> output_bamfiles'] =
                  IF OutputTruthy(unit.output_filename)
                  THEN handle_output_filename(data, ci, Len(unit.commands),
                           unit.organism, unit.output_filename,
                           [f |-> output_filenames, b |-> output_bamfiles])
                  ELSE [f |-> output_filenames, b |-> output_bamfiles]

\* C9: with analysis.run_fake set, no process is started and no callback is
\* called, no command fails, and every command is followed by the recording
\* of its outputs and by the next command or the end of the unit, as a
\* command that ended with status 0 is.
C9_DryRun == []C9_FakeState /\ [][C9_FakeStep]_vars

\* a faked call of two commands has recorded outputs and committed them
C9_Witness ==
    /\ run_fake /\ pc = "done" /\ outcome.t = "ok"
    /\ hist.faked = 2 * Len(work) /\ Len(work) = 2
    /\ data.override_last_files
    /\ output_filenames # <<>>
    /\ last_operation_filenames = [t |-> "dict", v |-> output_filenames]

\* C8: when a call has an input_function and deletion is permitted, the
\* files deleted for a unit are the files that were given to input_function
\* to make that unit, whatever the number of the units input_function makes.
C8_DeletesPreTransformInputs ==
    \A j \in 1..Len(hist.deleted) :
        (/\ data.input_function # "None"
         /\ UnlinkPermitted(data.unlink_inputs, hist.pre.can_unlink, run_fake))
            => /\ hist.deleted[j].asked = work[hist.deleted[j].u].fed
               /\ Range(hist.deleted[j].files) \subseteq
                      Range(work[hist.deleted[j].u].fed)

\* what holds: the property, for the calls whose input_function makes as
\* many units of an organism as there were
C8_DeletesInputsWhenCountsAgree ==
    \A j \in 1..Len(hist.deleted) :
        (/\ data.input_function # "None"
         /\ UnlinkPermitted(data.unlink_inputs, hist.pre.can_unlink, run_fake)
         /\ work[hist.deleted[j].u].inp # work[hist.deleted[j].u].mod)
            => hist.deleted[j].asked = work[hist.deleted[j].u].fed

\* the files the call began with, when they are a sample and a control of
\* the same barcode but for the tissue and of the same sequencing
MatchingPair(a, b) ==
    /\ AnalysisType(a) = "Sample" /\ AnalysisType(b) = "Control"
    /\ equals_without_tissue(BarcodedFilename(a), BarcodedFilename(b))
    /\ BarcodedFilename(a).sequencing = BarcodedFilename(b).sequencing
    /\ OrganismKey(a) = OrganismKey(b)

\* the call pairs the two single-file units of its only organism
PairsTwoUnits ==
    /\ pc \in {"unit", "cmd", "unlink", "commit"}
    /\ data.use_normals /\ use_normals_param
    /\ data.split_input_files /\ data.input_split_reads
    /\ hist.pre.last.t = "list" /\ Len(hist.pre.last.v) = 2
    /\ \/ MatchingPair(hist.pre.last.v[1], hist.pre.last.v[2])
       \/ MatchingPair(hist.pre.last.v[2], hist.pre.last.v[1])

\* C10: an organism of two single-file units, a sample and a control of the
\* same barcode but for the tissue and of the same sequencing, has after the
\* pairing one unit, which holds both files, whichever unit came first.
C10_SingleMatchPairs ==
    PairsTwoUnits
        => /\ Len(work) = 1
           /\ Len(work[1].inp) = 2
           /\ Range(work[1].inp) = Range(hist.pre.last.v)

\* the pairing of a control that comes before its sample
C10_Witness ==
    /\ PairsTwoUnits
    /\ AnalysisType(hist.pre.last.v[1]) = "Control"
    /\ work[1].inp = <<hist.pre.last.v[2], hist.pre.last.v[1]>>

\* the pairing of a sample that comes before its control
C10_WitnessSampleFirst ==
    /\ PairsTwoUnits
    /\ AnalysisType(hist.pre.last.v[1]) = "Sample"
    /\ work[1].inp = hist.pre.last.v

\* the call pairs three single-file units of one organism: a sample and two
\* controls of its barcode but for the tissue, one of the sample's
\* sequencing, at index same, and one of another sequencing, at index other
SampleWithTwoControls(sample, same, other) ==
    /\ pc \in {"unit", "cmd", "unlink", "commit"}
    /\ data.use_normals /\ use_normals_param
    /\ data.split_input_files /\ data.input_split_reads
    /\ hist.pre.last.t = "list" /\ Len(hist.pre.last.v) = 3
    /\ {sample, same, other} = 1..3
    /\ AnalysisType(hist.pre.last.v[sample]) = "Sample"
    /\ MatchingPair(hist.pre.last.v[sample], hist.pre.last.v[same])
    /\ AnalysisType(hist.pre.last.v[other]) = "Control"
    /\ equals_without_tissue(BarcodedFilename(hist.pre.last.v[sample]),
                             BarcodedFilename(hist.pre.last.v[other]))
    /\ OrganismKey(hist.pre.last.v[sample]) = OrganismKey(hist.pre.last.v[other])
    /\ BarcodedFilename(hist.pre.last.v[other]).sequencing
           # BarcodedFilename(hist.pre.last.v[sample]).sequencing

\* C11: a sample unit with two matching controls that differ in their
\* sequencing, one of them of the sample's sequencing, has after the pairing
\* that control, and only that one, in its unit; the other control stays in
\* a unit of its own.
C11_SequencingTieBreak ==
    \A sample, same, other \in 1..3 :
        SampleWithTwoControls(sample, same, other)
            => /\ Len(work) = 2
               /\ \E i, j \in 1..2 :
                      /\ i # j
                      /\ work[i].inp = <<hist.pre.last.v[sample],
                                         hist.pre.last.v[same]>>
                      /\ work[j].inp = <<hist.pre.last.v[other]>>

\* the pairing of a sample that comes between its two controls, the control
\* of another sequencing first
C11_Witness ==
    /\ SampleWithTwoControls(2, 3, 1)
    /\ work[1].inp = <<hist.pre.last.v[1]>>
    /\ work[2].inp = <<hist.pre.last.v[2], hist.pre.last.v[3]>>

\* the command templates and the output templates of a call, in order
CommandTemplatesOf(d) ==
    CASE d.command.t = "str" -> <<d.command.v>>
      [] d.command.t = "list" -> d.command.v
      [] OTHER -> <<>>

OutputTemplatesOf(d) ==
    IF d.output_format.t = "None" THEN <<>> ELSE OutputFormatList(d)

\* the expressions a template holds between braces
PlaceholdersOf(t) ==
    {t[i + 1] : i \in {j \in 1..(Len(t) - 2) : t[j] = "{" /\ t[j + 2] = "}"}}

PlaceholdersOfAll(templates) ==
    UNION {PlaceholdersOf(templates[i]) : i \in 1..Len(templates)}

\* a unit of the call is being handled, or the call ended while handling it
UnitIsAtHand == ui \in 1..Len(work) /\ pc \in {"cmd", "unlink", "done"}

\* the call ended while resolving the templates of the unit at hand
FailedAtResolution == pc = "done" /\ outcome.t = "error" /\ outcome.at = "unit"

\* the unit at hand has a classifiable file, or needs none
PassesRawCheck ==
    data.allow_raw_filenames \/ FileData(AnalysisInput(data, work[ui])) # <<>>

\* the variables of the unit at hand and the names in scope of its templates
CurrentParams == UnitParams(CurrentOrganism, AnalysisInput(data, work[ui]))

ScopeNames == DictKeys(CurrentParams) \cup {"output_filename"}

\* the placeholders of the call that name nothing in scope
Unevaluable ==
    (PlaceholdersOfAll(OutputTemplatesOf(data))
        \cup PlaceholdersOfAll(CommandTemplatesOf(data))) \ ScopeNames

\* C12: when a command or output template of a unit holds a placeholder that
\* cannot be evaluated, the call fails while resolving with PipelineError
\* "cannot evaluate ...", and no command of the unit has been run, the
\* commands of the list before the failing one included.
C12_UnevaluableFailsResolution ==
    (UnitIsAtHand /\ PassesRawCheck /\ Unevaluable # {})
        => /\ FailedAtResolution
           /\ outcome.err.type = "PipelineError"
           /\ \E e \in Unevaluable : outcome.err.msg = <<"cannot evaluate ", e>>
           /\ LaunchedOfUnit = <<>>

\* a list whose first command resolves and whose second does not has failed
\* before its first command was run
C12_Witness ==
    /\ UnitIsAtHand /\ PassesRawCheck /\ FailedAtResolution /\ ~run_fake
    /\ data.command.t = "list"
    /\ PlaceholdersOf(data.command.v[1]) \subseteq ScopeNames
    /\ PlaceholdersOf(data.command.v[2]) = {"nosuch"}
    /\ PlaceholdersOfAll(OutputTemplatesOf(data)) \subseteq ScopeNames
    /\ hist.launched = <<>>

\* a command of the call names output_filename and the units have none
NonePlaceholder ==
    /\ "output_filename" \in PlaceholdersOfAll(CommandTemplatesOf(data))
    /\ data.output_format.t = "None" /\ data.output_function = "None"

\* the placeholders of the call whose value is the empty string
EmptyPlaceholders ==
    {e \in (PlaceholdersOfAll(OutputTemplatesOf(data))
              \cup PlaceholdersOfAll(CommandTemplatesOf(data)))
             \cap DictKeys(CurrentParams) : DictGet(CurrentParams, e) = <<>>}

RECURSIVE Fill(_, _)
\* template t with each "{name}" replaced by the value of name in ctx
Fill(t, ctx) ==
    IF t = <<>> THEN <<>>
    ELSE IF Len(t) >= 3 /\ t[1] = "{" /\ t[3] = "}"
    THEN DictGet(ctx, t[2]) \o Fill(SubSeq(t, 4, Len(t)), ctx)
    ELSE <<t[1]>> \o Fill(Tail(t), ctx)

\* C13, as the code has it: a placeholder that evaluates to None makes the
\* resolution fail with PipelineError "evaluation of ... is None" before any
\* command of the unit is run; a placeholder that evaluates to the empty
\* string is replaced by the empty text, and the command is run.
C13_NoneFailsEmptyIsSubstituted ==
    (UnitIsAtHand /\ PassesRawCheck /\ Unevaluable = {})
        => IF NonePlaceholder
           THEN /\ FailedAtResolution
                /\ outcome.err = [type |-> "PipelineError",
                                  msg |-> <<"evaluation of ", "output_filename",
                                            " is None">>]
                /\ LaunchedOfUnit = <<>>
           ELSE /\ ~FailedAtResolution
                /\ \A i \in 1..Len(CommandTemplatesOf(data)) :
                       unit.commands[i].v =
                           Fill(CommandTemplatesOf(data)[i],
                                WithOutput(CurrentParams, unit.output_filename))

\* the second command of a list has been run with the empty text in the
\* place of organism_str, the unit having no organism
C13_Witness ==
    /\ UnitIsAtHand /\ pc \in {"cmd", "unlink"} /\ ~run_fake
    /\ data.command = CommandList
    /\ EmptyPlaceholders = {"organism_str"}
    /\ unit.commands[2].v = <<"/", "bin", "/", "tool2", " ">>
    /\ \E i \in 1..Len(hist.launched) :
           hist.launched[i].u = ui /\ hist.launched[i].c = 1

\* C13, as stated: a placeholder that evaluates to None or to the empty
\* string makes the resolution fail with PipelineError, so that no command
\* and no output name with a blank in the place of a value is used.
C13_EmptyResultFailsResolution ==
    (/\ UnitIsAtHand /\ PassesRawCheck /\ Unevaluable = {}
     /\ (NonePlaceholder \/ EmptyPlaceholders # {}))
        => FailedAtResolution /\ outcome.err.type = "PipelineError"

\* the unit at hand has its output filename and its commands
UnitIsResolved == UnitIsAtHand /\ ~FailedAtResolution /\ ~unit.skipped

\* the strings the resolution returned for the unit at hand
ResolvedStrings ==
    {unit.commands[i].v :
        i \in {j \in 1..Len(unit.commands) : unit.commands[j].t = "str"}}
    \cup (IF unit.output_filename.t = "None" THEN {}
          ELSE Range(OutputList(unit.output_filename)))

C15_NoPlaceholderUnchanged ==
    (UnitIsAtHand /\ PassesRawCheck)
        => /\ (PlaceholdersOfAll(OutputTemplatesOf(data))
                  \cup PlaceholdersOfAll(CommandTemplatesOf(data)) = {})
                  => ~FailedAtResolution
           /\ UnitIsResolved
                  => /\ \A i \in 1..Len(CommandTemplatesOf(data)) :
                            PlaceholdersOf(CommandTemplatesOf(data)[i]) = {}
                                => unit.commands[i].v = CommandTemplatesOf(data)[i]
                     /\ (/\ PlaceholdersOfAll(OutputTemplatesOf(data)) = {}
                         /\ data.output_format.t = "str"
                         /\ data.output_function = "None")
                            => unit.output_filename = data.output_format

\* the command "tool {}" has been run as it was given, with the output
\* format that has no placeholder
C15_Witness ==
    /\ UnitIsResolved /\ ~run_fake
    /\ data.command.t = "str" /\ data.command.v = <<"tool", " ", "{", "}">>
    /\ unit.commands = <<data.command>>
    /\ data.output_format.t = "str"
    /\ unit.output_filename = data.output_format
    /\ LaunchedOfUnit # <<>>

\* the engine is as it was when the call began
EngineAsBefore ==
    /\ last_operation_filenames = hist.pre.last
    /\ can_unlink = hist.pre.can_unlink
    /\ bamfiles = hist.pre.bamfiles
    /\ fs = hist.pre.fs

\* C16: a call without input_filenames on an engine whose
\* last_operation_filenames is None fails with PipelineError "input files
\* missing ..." before any command is run and with the engine as it was; a
\* call with input_filenames takes its input from them, whatever
\* last_operation_filenames holds.
C16_InputSource ==
    /\ (pc = "done" /\ data.input_filenames.t = "None" /\ hist.pre.last.t = "None")
           => /\ outcome =
                     [t |-> "error", at |-> "idle",
                      err |-> [type |-> "PipelineError",
                               msg |-> <<"input files missing and last_operation_filenames empty">>]]
              /\ hist.launched = <<>> /\ hist.faked = 0
              /\ EngineAsBefore
    /\ (pc # "idle" /\ data.input_filenames.t # "None")
           => /\ \A other \in {NoneValue}
                         \cup {[t |-> "list", v |-> l] : l \in ResolveFilenames} :
                     get_input_filenames(data, other, use_normals_param)
                         = get_input_filenames(data, hist.pre.last, use_normals_param)
              /\ outcome.t # "error" \/ outcome.at # "idle"
                     => /\ Range(Flatten([i \in 1..Len(work) |-> work[i].inp]))
                               = Range(data.input_filenames.v)
                        /\ Len(Flatten([i \in 1..Len(work) |-> work[i].inp]))
                               = Len(data.input_filenames.v)

\* a call without input on an engine without state has failed
C16_Witness ==
    /\ pc = "done" /\ data.input_filenames.t = "None" /\ hist.pre.last.t = "None"
    /\ outcome.t = "error" /\ outcome.at = "idle"

\* a call with input_filenames handles them, the engine holding other files
C16_WitnessOverride ==
    /\ pc = "cmd" /\ data.input_filenames.t = "list"
    /\ hist.pre.last.t = "list" /\ hist.pre.last.v = <<B1>>
    /\ work = <<[inp |-> <<S2>>, mod |-> <<>>, fed |-> <<S2>>]>>

\* the value the call at hand takes its input files from
InputSource ==
    IF data.input_filenames.t # "None" THEN data.input_filenames ELSE hist.pre.last

\* C17: a call whose input resolution gives no organism or no unit, its
\* source holding no file, fails with PipelineError "empty input list"; it
\* does not complete without a unit and commit an empty state.
C17_EmptyInputFails ==
    (pc # "idle" /\ InputSource.t # "None" /\ FlatFilenames(InputSource) = <<>>)
        => /\ pc = "done"
           /\ outcome.t = "error"
           /\ outcome.err = [type |-> "PipelineError", msg |-> <<"empty input list">>]

\* the input of the call at hand before its input_function is applied
InputBeforeTransform ==
    get_input_filenames([data EXCEPT !.input_function = "None"], hist.pre.last,
                        use_normals_param)

\* what input_function returns for the groups of the call at hand, organism
\* by organism and group by group
TransformResults ==
    Bind(InputBeforeTransform, LAMBDA r :
        IF ~r.ok THEN <<>>
        ELSE Flatten([i \in 1..Len(r.input) |->
                 Bind(Flatten([j \in 1..Len(r.input[i].v) |->
                          InputFunctionParams(r.input[i].v[j],
                                              data.input_split_reads)]),
                      LAMBDA params :
                          [k \in 1..Len(params) |->
                              ApplyInputFunction(data.input_function, params[k])])]))

\* the values of the results of input_function when it was called for some
\* group and did not raise, <<>> otherwise
ResultValuesOf(res) ==
    IF \A k \in 1..Len(res) : res[k].ok THEN [k \in 1..Len(res) |-> res[k].v]
    ELSE <<>>

\* the results of the call at hand, <<>> when it has no input_function
ResultValues ==
    IF pc # "idle" /\ data.input_function # "None"
    THEN ResultValuesOf(TransformResults) ELSE <<>>

\* the files of the units the call iterates, after the transform
TransformedFiles == Flatten([i \in 1..Len(work) |-> work[i].mod])

C18_WitnessWrapped ==
    /\ \E v \in Range(ResultValues) : ~Truthy(v)
    /\ ~data.input_split_reads
    /\ \E i \in 1..Len(work) : <<>> \in Range(work[i].mod)

C19_BamfilesReplacedIffWritten ==
    pc # "idle" =>
        bamfiles = IF /\ pc = "done" /\ outcome.t = "ok"
                      /\ data.write_bam_files /\ output_bamfiles # <<>>
                   THEN [t |-> "dict", v |-> output_bamfiles]
                   ELSE hist.pre.bamfiles

\* a call that does not commit its outputs replaced analysis.bamfiles
C19_Witness ==
    /\ pc = "done" /\ outcome.t = "ok"
    /\ ~data.override_last_files /\ data.write_bam_files
    /\ output_bamfiles # <<>>
    /\ bamfiles = [t |-> "dict", v |-> output_bamfiles]
    /\ bamfiles # hist.pre.bamfiles
    /\ last_operation_filenames = hist.pre.last

\* a call on the two reads of one organism that takes them as one unit and
\* whose output_function makes two names of the output name
PairedReadsCall ==
    /\ pc # "idle"
    /\ hist.pre.last = [t |-> "list", v |-> <<S1, S2>>]
    /\ ~data.input_split_reads /\ data.output_function = "reads"

\* the two names output_function makes of the resolved output name of the
\* organism of S1 and S2, in the order it returns them
ClippedReads ==
    <<AbsPath(<<"P1", "-T", "-s1", ".", "hg", "19", ".clipped", ".R", "1", ".fastq">>),
      AbsPath(<<"P1", "-T", "-s1", ".", "hg", "19", ".clipped", ".R", "2", ".fastq">>)>>

\* C20: with input_split_reads unset the R1 and R2 files of an organism are
\* one unit and the command runs once; when output_function makes several
\* names of the resolved output name, the accumulator of the organism holds
\* exactly those names in the order output_function returned them, and both
\* the R1 and the R2 file are deleted when deletion is permitted.
C20_PairedReads ==
    PairedReadsCall =>
        /\ Len(work) = 1 /\ work[1].inp = <<S1, S2>>
        /\ Len(hist.launched) + hist.faked <= 1
        /\ (pc = "done" /\ outcome.t = "ok") =>
               /\ Len(hist.launched) + hist.faked = 1
               /\ Len(output_filenames) = 1
               /\ output_filenames[1].v = ClippedReads
               /\ UnlinkPermitted(data.unlink_inputs, hist.pre.can_unlink, run_fake)
                      => /\ Len(hist.deleted) = 1
                         /\ hist.deleted[1].files = <<S1, S2>>
                         /\ AbsPath(S1) \notin fs /\ AbsPath(S2) \notin fs

\* a call that joined the two reads ran its command once, recorded the two
\* names and deleted the two reads
C20_Witness ==
    /\ PairedReadsCall /\ pc = "done" /\ outcome.t = "ok"
    /\ data.input_function = "join" /\ ~run_fake
    /\ UnlinkPermitted(data.unlink_inputs, hist.pre.can_unlink, run_fake)
    /\ Len(hist.launched) = 1
    /\ output_filenames[1].v = ClippedReads
    /\ AbsPath(S1) \in hist.pre.fs /\ AbsPath(S2) \in hist.pre.fs
    /\ AbsPath(S1) \notin fs /\ AbsPath(S2) \notin fs

\* a command of the unit at hand has just succeeded
CommandSucceeded == pc = "cmd" /\ ci' = ci + 1

\* the names the unit at hand appends when a command of it has succeeded:
\* all its output names after every command without save_only_last, after
\* the last command with it, and none when its output filename is None
NamesAppended ==
    IF /\ unit.output_filename.t # "None"
       /\ ~data.save_only_last \/ ci + 1 = Len(unit.commands)
    THEN [i \in 1..Len(OutputList(unit.output_filename)) |->
             NormalizeOutput(OutputList(unit.output_filename)[i])]
    ELSE <<>>

\* the names of an accumulator, as a bag: name -> number of times recorded
TimesRecorded(acc, f) ==
    Cardinality({i \in 1..Len(DictValues(acc)) : DictValues(acc)[i] = f})

C21_Step ==
    /\ CommandSucceeded =>
           \A f \in Range(DictValues(output_filenames')) \cup Range(NamesAppended) :
               TimesRecorded(output_filenames', f) =
                   TimesRecorded(output_filenames, f)
                       + Cardinality({i \in 1..Len(NamesAppended) :
                                         NamesAppended[i] = f})
    /\ (~CommandSucceeded /\ pc # "idle" /\ pc' # "idle") =>
           output_filenames' = output_filenames

\* C21: the output names of a unit with k commands are appended to the
\* accumulator once, after the k-th command has succeeded, when
\* save_only_last is set, and after each command that succeeded when it is
\* not; a unit whose output filename is None appends nothing, and nothing
\* else of a call appends to the accumulator.
C21_OutputBookkeeping == [][C21_Step]_vars

\* the first of two commands has succeeded and, save_only_last being set,
\* nothing has been recorded
C21_Witness ==
    /\ pc = "cmd" /\ ci = 1 /\ Len(unit.commands) = 2
    /\ data.save_only_last /\ unit.output_filename.t # "None"
    /\ ~run_fake /\ Len(hist.launched) = 1
    /\ output_filenames = <<>>

\* both commands have succeeded and the output is recorded once
C21_WitnessLast ==
    /\ pc = "unlink" /\ ci = 2 /\ Len(unit.commands) = 2 /\ ui = 1
    /\ data.save_only_last /\ unit.output_filename.t # "None"
    /\ Len(DictValues(output_filenames)) = 1

\* without save_only_last the output is recorded after each command
C21_WitnessEach ==
    /\ pc = "unlink" /\ ci = 2 /\ Len(unit.commands) = 2 /\ ui = 1
    /\ ~data.save_only_last /\ unit.output_filename.t # "None"
    /\ Len(DictValues(output_filenames)) = 2

\* the input of the call at hand holds a file that is no barcode
HasUnclassifiable ==
    \E f \in FilesOf(InputSource) : ~BarcodedFilename(f).ok

\* the call at hand ended while resolving its input
FailedAtInput == pc = "done" /\ outcome.t = "error" /\ outcome.at = "idle"

\* C22: a call whose input holds a file that cannot be classified does not
\* fail while resolving its input, the pairing of the samples with their
\* normals included: the file is of type Unspecified and is put in a unit.
C22_UnclassifiableNeverFails ==
    (pc # "idle" /\ HasUnclassifiable)
        => /\ ~FailedAtInput
           /\ \E i \in 1..Len(work) : \E f \in Range(work[i].inp) :
                  ~BarcodedFilename(f).ok /\ AnalysisType(f) = "Unspecified"

\* what holds: the same when the samples are not paired with their normals
C22_UnclassifiableWithoutPairing ==
    (pc # "idle" /\ HasUnclassifiable /\ ~(data.use_normals /\ use_normals_param))
        => /\ ~FailedAtInput
           /\ \E i \in 1..Len(work) : \E f \in Range(work[i].inp) :
                  ~BarcodedFilename(f).ok /\ AnalysisType(f) = "Unspecified"

\* the call at hand has units, and no file of its input carries an organism
NoOrganismInput ==
    /\ pc # "idle" /\ work # <<>>
    /\ \A f \in FilesOf(InputSource) : OrganismKey(f) = <<>>

\* C24: the outputs of a unit whose file carries no organism are recorded in
\* the accumulators, and in the state a call commits, under the empty
\* string, the key its input was grouped under.
C24_UnspecifiedOrganismKey ==
    NoOrganismInput
        => /\ DictKeys(output_filenames) \subseteq {<<>>}
           /\ DictKeys(output_bamfiles) \subseteq {<<>>}
           /\ (pc = "done" /\ outcome.t = "ok" /\ data.override_last_files)
                  => DictKeys(last_operation_filenames.v) \subseteq {<<>>}

\* what holds: such outputs are recorded under the default human annotation
C24_RecordedUnderHumanAnnotation ==
    NoOrganismInput
        => /\ DictKeys(output_filenames) \subseteq {HumanAnnotation}
           /\ DictKeys(output_bamfiles) \subseteq {HumanAnnotation}

\* the unit at hand has neither a Sample nor a Control file
NoSampleNoControl ==
    /\ UnitIsAtHand
    /\ \A f \in Range(AnalysisInput(data, work[ui])) :
           AnalysisType(f) \notin {"Sample", "Control"}

\* C23: a unit with neither a Sample nor a Control file ends the call with
\* an AssertionError before any of its commands when allow_raw_filenames is
\* unset; when it is set the unit is executed, its organism being the
\* default human annotation and organism_str being empty.
C23_RawUnit ==
    NoSampleNoControl =>
        IF ~data.allow_raw_filenames
        THEN /\ pc = "done" /\ outcome.t = "error" /\ outcome.at = "unit"
             /\ outcome.err.type = "AssertionError"
             /\ \A j \in 1..Len(hist.launched) : hist.launched[j].u # ui
             /\ ui = 1 => hist.faked = 0
        ELSE /\ ~(pc = "done" /\ outcome.t = "error" /\ outcome.at = "unit")
             /\ pc \in {"cmd", "unlink"} =>
                    /\ ~unit.skipped
                    /\ unit.organism = HumanAnnotation
                    /\ \E i \in 1..Len(unit.params) :
                           unit.params[i] = [k |-> "organism_str", v |-> <<>>]

\* the unit of a raw file has ended the call before its command
C23_Witness ==
    /\ NoSampleNoControl /\ ~data.allow_raw_filenames
    /\ AnalysisInput(data, work[ui]) = <<Raw1>>
    /\ pc = "done" /\ outcome.err.type = "AssertionError"
    /\ hist.launched = <<>>

\* the unit of a raw file has run its command
C23_WitnessRaw ==
    /\ NoSampleNoControl /\ data.allow_raw_filenames
    /\ AnalysisInput(data, work[ui]) = <<Raw1>>
    /\ pc = "unlink" /\ Len(hist.launched) = 1
    /\ unit.organism = HumanAnnotation

\* the files of the input of the call at hand, organism by organism in the
\* order the organisms first occur, all under one key without
\* split_by_organism
FilesByKey ==
    Bind(FlatFilenames(InputSource), LAMBDA fl :
        IF ~data.split_by_organism THEN <<fl>>
        ELSE Bind(Dedup([i \in 1..Len(fl) |-> OrganismKey(fl[i])]), LAMBDA keys :
                 [k \in 1..Len(keys) |->
                     SelectSeq(fl, LAMBDA f : OrganismKey(f) = keys[k])]))

\* the call at hand has resolved its input, and neither pairs the samples
\* with their normals nor has an input_function
Grouped ==
    /\ pc # "idle" /\ ~FailedAtInput
    /\ data.input_function = "None"
    /\ ~(data.use_normals /\ use_normals_param)

\* the units of the call at hand, in the order it iterates them
UnitsOfCall == [i \in 1..Len(work) |-> work[i].inp]

\* C25: with split_input_files the units of a call are its input files, one
\* unit each, in the order of the input within each organism; without it
\* they are one unit per organism, of all the files of the organism in the
\* order of the input. Every input file is in exactly one unit. (The units
\* are those input_split_reads leaves as they were grouped.)
C25_Grouping ==
    (Grouped /\ data.input_split_reads) =>
        /\ UnitsOfCall =
               IF data.split_input_files
               THEN [i \in 1..Len(Flatten(FilesByKey)) |-> <<Flatten(FilesByKey)[i]>>]
               ELSE FilesByKey
        /\ Len(Flatten(UnitsOfCall)) = Len(FlatFilenames(InputSource))
        /\ Range(Flatten(UnitsOfCall)) = FilesOf(InputSource)

\* three files of two organisms, one unit each, organism by organism
C25_Witness ==
    /\ Grouped /\ data.input_split_reads
    /\ data.split_input_files /\ data.split_by_organism
    /\ FlatFilenames(InputSource) = <<S1, M1, S2>>
    /\ UnitsOfCall = << <<S1>>, <<S2>>, <<M1>> >>

\* three files of two organisms in two units
C25_WitnessWhole ==
    /\ Grouped /\ data.input_split_reads
    /\ ~data.split_input_files /\ data.split_by_organism
    /\ UnitsOfCall = << <<S1, S2>>, <<M1>> >>

\* the units as split_input_files groups them
UnitsAsGrouped ==
    IF data.split_input_files
    THEN [i \in 1..Len(Flatten(FilesByKey)) |-> <<Flatten(FilesByKey)[i]>>]
    ELSE FilesByKey

\* C26: a call without input_function has no transformed input, and the
\* units of an organism are merged into one unit of all its files when
\* input_split_reads is unset; when it is set, as by default, the units
\* stay as split_input_files grouped them.
C26_MergedWithoutSplitReads ==
    Grouped =>
        /\ \A i \in 1..Len(work) : work[i].mod = <<>>
        /\ UnitsOfCall = IF data.input_split_reads THEN UnitsAsGrouped
                         ELSE FilesByKey

\* three single-file units of one organism were merged into one
C26_Witness ==
    /\ Grouped /\ ~data.input_split_reads
    /\ data.split_input_files /\ ~data.split_by_organism
    /\ UnitsOfCall = << <<S1, M1, S2>> >>

\* the statement as the specification has it: without input_function every
\* organism has one unit, of all its files
C26_AlwaysMerged ==
    Grouped =>
        /\ \A i \in 1..Len(work) : work[i].mod = <<>>
        /\ UnitsOfCall = FilesByKey

\* the call at hand ended in _handle_command
FailedAtCommand == pc = "done" /\ outcome.t = "error" /\ outcome.at = "cmd"

\* the exception string of the call at hand for the status 2: the caller's
\* with the status in the place of "{status}" and the first input file of
\* the unit in the place of "{input_filenames[0]}", or "tool error" (every
\* command of the calls has the program tool, with or without a directory)
ExpectedExceptionString ==
    IF data.exception_string = PyNone THEN <<"tool", " error">>
    ELSE StrReplace(StrReplace(data.exception_string,
                               <<"{", "status", "}">>, <<"2">>),
                    <<"{", "input_filenames[0]", "}">>, unit.analysis_input[1])

\* C27: a call whose command is one string and whose process ends with a
\* status that is not 0 ends with PipelineError, whose message is
\* exception_string with its placeholders replaced, the status included, or
\* "<program> error" when the caller gave none, <program> being the basename
\* of the first word of the command. A callback never gives a status other
\* than 0: a call ends in a callback only by the callback raising.
C27_CommandFailure ==
    pc # "idle" =>
    /\ \A j \in 1..Len(hist.launched) :
           (hist.launched[j].status # 0 /\ data.command.t = "str")
               => /\ FailedAtCommand /\ j = Len(hist.launched)
                  /\ outcome.err = [type |-> "PipelineError",
                                    msg |-> ExpectedExceptionString]
    /\ data.command.t = "callable" =>
           /\ \A j \in 1..Len(hist.launched) : hist.launched[j].status = 0
           /\ FailedAtCommand =>
                  /\ hist.launched[Len(hist.launched)].raised
                  /\ outcome.err.type = "CallbackError"

\* a process given with its directory ended with status 2 and the call with
\* the default exception string
C27_Witness ==
    /\ FailedAtCommand /\ data.command.t = "str"
    /\ Head(data.command.v) = "/"
    /\ hist.launched[Len(hist.launched)].status = 2
    /\ data.exception_string = PyNone
    /\ outcome.err.msg = <<"tool", " error">>

\* what holds: the same for the exception strings that name no element of
\* input_filenames
C27_CommandFailureWithoutIndex ==
    (pc # "idle" /\ "input_filenames[0]" \notin Range(data.exception_string)) =>
    /\ \A j \in 1..Len(hist.launched) :
           (hist.launched[j].status # 0 /\ data.command.t = "str")
               => /\ FailedAtCommand /\ j = Len(hist.launched)
                  /\ outcome.err = [type |-> "PipelineError",
                                    msg |-> ExpectedExceptionString]
    /\ data.command.t = "callable" =>
           /\ \A j \in 1..Len(hist.launched) : hist.launched[j].status = 0
           /\ FailedAtCommand =>
                  /\ hist.launched[Len(hist.launched)].raised
                  /\ outcome.err.type = "CallbackError"

\* the same with the exception string of the caller
C27_WitnessCustom ==
    /\ FailedAtCommand /\ data.command.t = "str"
    /\ data.exception_string # PyNone
    /\ outcome.err = [type |-> "PipelineError", msg |-> <<"tool error ", "2">>]

\* the filenames of l that end in ".bam", in the order of l
BamOnly(l) == SelectSeq(l, LAMBDA f : f # <<>> /\ f[Len(f)] = ".bam")

\* C28: at every point of a call and for every organism, the list of
\* output_bamfiles is the list of output_filenames without the filenames
\* whose extension is not ".bam", in the same order; output_bamfiles has no
\* organism that output_filenames has not.
C28_BamfilesAreTheBamOutputs ==
    /\ DictKeys(output_bamfiles) \subseteq DictKeys(output_filenames)
    /\ \A k \in DictKeys(output_filenames) :
           IF k \in DictKeys(output_bamfiles)
           THEN /\ DictGet(output_bamfiles, k) = BamOnly(DictGet(output_filenames, k))
                /\ DictGet(output_bamfiles, k) # <<>>
           ELSE BamOnly(DictGet(output_filenames, k)) = <<>>

\* the second unit of a call has recorded a .sam and a .bam file after those
\* of the first
C28_Witness ==
    /\ pc = "unlink" /\ ui = 2
    /\ \E k \in DictKeys(output_bamfiles) :
           /\ Len(DictGet(output_filenames, k)) = 4
           /\ Len(DictGet(output_bamfiles, k)) = 2
           /\ DictGet(output_bamfiles, k) = BamOnly(DictGet(output_filenames, k))

\* the filenames the accumulators hold
RecordedNames ==
    Range(DictValues(output_filenames)) \cup Range(DictValues(output_bamfiles))

\* C29: every filename recorded in the accumulators, and so every filename
\* of a state a call commits, is an absolute path, whether the output was
\* named without a directory, in "." or in a directory of its own.
C29_RecordedNamesAreAbsolute ==
    /\ \A f \in RecordedNames : f # <<>> /\ Head(f) = "/"
    /\ (pc = "done" /\ outcome.t = "ok" /\ data.override_last_files)
           => \A f \in FilesOf(last_operation_filenames) : Head(f) = "/"

\* what holds: the same for the outputs named without a directory or in "."
C29_BareNamesAreAbsolute ==
    pc # "idle" =>
        \/ data.output_format.t = "None"
        \/ Dirname(data.output_format.v) \notin {<<>>, <<".">>}
        \/ \A f \in RecordedNames : f # <<>> /\ Head(f) = "/"

\* a name in "." was recorded under the working directory
C29_WitnessDot ==
    /\ pc = "unlink"
    /\ <<"/", "cwd", "/", ".", "/", "P1", "-T", "-s1", ".bam">> \in RecordedNames

\* the index of the first file of a type in a unit, 0 when it has none
FirstOfType(files, type) ==
    IF \A i \in 1..Len(files) : AnalysisType(files[i]) # type THEN 0
    ELSE CHOOSE i \in 1..Len(files) :
             /\ AnalysisType(files[i]) = type
             /\ \A j \in 1..(i - 1) : AnalysisType(files[j]) # type

\* the file a unit takes its organism from: its first Sample, else its first
\* Control, <<>> when it has neither
DesignatedFile(files) ==
    IF FirstOfType(files, "Sample") # 0 THEN <<files[FirstOfType(files, "Sample")]>>
    ELSE IF FirstOfType(files, "Control") # 0
    THEN <<files[FirstOfType(files, "Control")]>>
    ELSE <<>>

\* C30: the organism of a unit is that of its first Sample file in the
\* order of the unit, and that of its first Control file only when it has no
\* Sample file (the default human annotation when that file names none). The
\* sample and the control accessor each give the first file of their type,
\* or nothing when the unit has none.
C30_OrganismOfFirstSample ==
    (pc \in {"cmd", "unlink"}) =>
        Bind(unit.analysis_input, LAMBDA files :
            /\ SingleAnalysis_sample(files) =
                   (IF FirstOfType(files, "Sample") = 0 THEN <<>>
                    ELSE <<files[FirstOfType(files, "Sample")]>>)
            /\ SingleAnalysis_control(files) =
                   (IF FirstOfType(files, "Control") = 0 THEN <<>>
                    ELSE <<files[FirstOfType(files, "Control")]>>)
            /\ DesignatedFile(files) # <<>> =>
                   unit.organism =
                       IF OrganismKey(DesignatedFile(files)[1]) = <<>>
                       THEN HumanAnnotation
                       ELSE OrganismKey(DesignatedFile(files)[1]))

\* a unit of a control of one organism followed by a sample of another has
\* the organism of the sample
C30_Witness ==
    /\ pc = "cmd" /\ unit.analysis_input = <<N1, M1>>
    /\ unit.organism = <<"mm", "10">>

\* a unit of a control alone has the organism of the control
C30_WitnessControl ==
    /\ pc = "cmd" /\ unit.analysis_input = <<N1>>
    /\ unit.organism = <<"hg", "19">>

\* a last_operation_filenames value that holds exactly one filename: a
\* string, a list of one, or a dict of one organism whose value is a string
\* or a list of one
HoldsOneFilename(obj) ==
    \/ obj.t = "str" /\ obj.v # <<>>
    \/ obj.t = "list" /\ Len(obj.v) = 1
    \/ /\ obj.t = "dict" /\ Len(obj.v) = 1
       /\ \/ EntryType(obj.v[1]) = "str"
          \/ EntryType(obj.v[1]) = "list" /\ Len(obj.v[1].v) = 1

\* the call at hand is one of override_last_operation_filename and has ended
Overridden == pc = "done" /\ data = NoneValue

\* C31: override_last_operation_filename succeeds exactly when the state
\* holds one filename in all: the state then has the same shape and the same
\* organism key and its one filename is the new one. In every other case it
\* raises PipelineError and the state is as before the call.
C31_OverrideOneFilename ==
    Overridden =>
        /\ (outcome.t = "ok") = HoldsOneFilename(hist.pre.last)
        /\ outcome.t = "ok" =>
               /\ last_operation_filenames.t = hist.pre.last.t
               /\ StateFilenames(last_operation_filenames) = {hist.pre.new_filename}
               /\ HoldsOneFilename(last_operation_filenames)
               /\ last_operation_filenames.t = "dict" =>
                      /\ last_operation_filenames.v[1].k = hist.pre.last.v[1].k
                      /\ EntryType(last_operation_filenames.v[1])
                             = EntryType(hist.pre.last.v[1])
        /\ outcome.t # "ok" =>
               /\ outcome.t = "error" /\ outcome.err.type = "PipelineError"
               /\ last_operation_filenames = hist.pre.last
        /\ can_unlink = hist.pre.can_unlink
        /\ bamfiles = hist.pre.bamfiles
        /\ fs = hist.pre.fs

\* the one filename of a dict of one organism was replaced
C31_Witness ==
    /\ Overridden /\ outcome.t = "ok"
    /\ hist.pre.last = [t |-> "dict", v |-> <<[k |-> <<"hg", "19">>, v |-> <<S1>>]>>]
    /\ last_operation_filenames =
           [t |-> "dict", v |-> <<[k |-> <<"hg", "19">>, v |-> <<B1>>]>>]

\* a list of two filenames was refused
C31_WitnessRefused ==
    /\ Overridden /\ outcome.t = "error"
    /\ hist.pre.last = [t |-> "list", v |-> <<S1, S2>>]

\* C32: a unit skipped because of only_human is skipped entirely: the end of
\* the unit deletes none of its input files, whatever unlink_inputs and
\* can_unlink are.
C32_SkippedUnitKeepsInputs ==
    [][(pc = "unlink" /\ unit.skipped) => fs' = fs]_vars

\* what holds of a skipped unit: it runs no command and records no output
C32_SkippedUnitRunsNothing ==
    (pc = "unlink" /\ unit.skipped) =>
        /\ \A i \in 1..Len(hist.launched) : hist.launched[i].u # ui
        /\ unit.commands = <<>>
        /\ \A i \in 1..Len(output_filenames) :
               output_filenames[i].k # unit.organism

\* the files the call at hand deleted and that no longer exist
DeletedByStep ==
    {AbsPath(g) : g \in UNION {Range(hist.deleted[i].files) :
                                   i \in 1..Len(hist.deleted)}} \ fs

\* C33: when a call has completed, whatever override_last_files and
\* unlink_inputs are, no filename of analysis.last_operation_filenames is a
\* file the call deleted as an input.
C33_StateNeverNamesDeleted ==
    (pc = "done" /\ outcome.t = "ok") =>
        \A f \in FilesOf(last_operation_filenames) : AbsPath(f) \notin DeletedByStep

\* C34: a call that ends with an exception, wherever it was raised, leaves
\* analysis.last_operation_filenames, analysis.can_unlink and
\* analysis.bamfiles as they were when the call began.
C34_FailedCallCommitsNothing ==
    (pc = "done" /\ data # NoneValue /\ outcome.t = "error") =>
        /\ last_operation_filenames = hist.pre.last
        /\ can_unlink = hist.pre.can_unlink
        /\ bamfiles = hist.pre.bamfiles

\* a call failed at a command after the outputs of an earlier unit had been
\* recorded, and the analysis had no permission to delete
C34_Witness ==
    /\ pc = "done" /\ data # NoneValue /\ outcome.t = "error" /\ outcome.at = "cmd"
    /\ output_filenames # <<>> /\ output_bamfiles # <<>>
    /\ ~can_unlink /\ bamfiles = NoneValue
    /\ data.override_last_files /\ data.write_bam_files

\* a call failed at the resolution of its input
C34_WitnessInput ==
    pc = "done" /\ data # NoneValue /\ outcome.t = "error" /\ outcome.at = "idle"

\* a callback of a call raised an exception
C34_WitnessCallback ==
    /\ pc = "done" /\ data # NoneValue /\ outcome.t = "error"
    /\ outcome.err.type = "CallbackError"

\* a call failed on a unit without a file that can be classified
C34_WitnessUnclassified ==
    /\ pc = "done" /\ data # NoneValue /\ outcome.t = "error"
    /\ outcome.err.type = "AssertionError" /\ outcome.at = "unit"

\* a call failed at the resolution of a template of a unit
C34_WitnessTemplate ==
    pc = "done" /\ data # NoneValue /\ outcome.t = "error" /\ outcome.at = "unit"

\* the number of occurrences of x in a sequence
Count(seq, x) == Cardinality({i \in 1..Len(seq) : seq[i] = x})

\* the call has paired the samples of its input with their normals
PairingApplied ==
    /\ pc \in {"unit", "cmd", "unlink", "commit"}
    /\ data.use_normals /\ use_normals_param
    /\ hist.pre.last.t = "list"

\* the files of the units of the call, unit after unit
UnitFiles == Flatten([i \in 1..Len(work) |-> work[i].inp])

\* C35: the pairing only moves files between units: whatever the grouping
\* before it, every file is in the units after the pairing as many times as
\* in the input, and no unit is empty.
C35_PairingPreservesFiles ==
    PairingApplied =>
        /\ \A f \in Range(UnitFiles) \cup Range(hist.pre.last.v) :
               Count(UnitFiles, f) = Count(hist.pre.last.v, f)
        /\ \A i \in 1..Len(work) : work[i].inp # <<>>

\* what holds: when every file came as a unit of its own, every file is in
\* the units once, and no unit is empty
C35_PairingPreservesSplitFiles ==
    (PairingApplied /\ data.split_input_files) =>
        /\ \A f \in Range(UnitFiles) \cup Range(hist.pre.last.v) :
               Count(UnitFiles, f) = Count(hist.pre.last.v, f)
        /\ \A i \in 1..Len(work) : work[i].inp # <<>>

\* a control was moved into the unit of its sample and its unit dropped
C35_WitnessSplit ==
    /\ PairingApplied /\ data.split_input_files /\ data.input_split_reads
    /\ hist.pre.last.v = <<S1, N1s2, N1>>
    /\ Len(work) = 2 /\ work[1].inp = <<S1, N1>> /\ work[2].inp = <<N1s2>>

\* the index in the input of the first sample that has a control of its
\* barcode but for the tissue, 0 when there is none
FirstMatchedSample(files) ==
    LET I == {i \in 1..Len(files) :
                 /\ AnalysisType(files[i]) = "Sample"
                 /\ \E j \in 1..Len(files) :
                        /\ AnalysisType(files[j]) = "Control"
                        /\ equals_without_tissue(BarcodedFilename(files[i]),
                                                 BarcodedFilename(files[j]))
                        /\ data.split_by_organism =>
                               OrganismKey(files[i]) = OrganismKey(files[j])}
    IN  IF I = {} THEN 0 ELSE CHOOSE i \in I : \A j \in I : i <= j

\* C36: a control that the pairing has moved into the unit of a sample stays
\* there: the first sample of the input that has a matching control is
\* still in a unit with a control when the pairing ends, whatever samples
\* come after it.
C36_PairedSampleStaysPaired ==
    (PairingApplied /\ data.split_input_files /\ data.input_split_reads
        /\ FirstMatchedSample(hist.pre.last.v) # 0) =>
        \E u \in 1..Len(work) :
            /\ hist.pre.last.v[FirstMatchedSample(hist.pre.last.v)]
                   \in Range(work[u].inp)
            /\ \E f \in Range(work[u].inp) : AnalysisType(f) = "Control"

\* what happens to the two reads of a sample and one control: the control
\* ends in the unit of the second read and the first read is left alone
C36_LastSampleKeepsControl ==
    (PairingApplied /\ data.split_input_files /\ data.input_split_reads
        /\ hist.pre.last.v = <<S1, S2, N1>>) =>
        /\ Len(work) = 2
        /\ work[1].inp = <<S1>>
        /\ work[2].inp = <<S2, N1>>

\* C37: analysis.can_unlink never goes from true to false; it changes only at
\* the end of a call that completes with override_last_files = true, which
\* sets it whether the call recorded an output or not; the calls with
\* override_last_files = false and the calls that fail leave it as it is.
C37_Step ==
    /\ can_unlink => can_unlink'
    /\ can_unlink' # can_unlink =>
           pc = "commit" /\ pc' = "done" /\ data.override_last_files
    /\ (pc = "commit" /\ pc' = "done" /\ data.override_last_files) => can_unlink'
    /\ (pc' = "done" /\ outcome'.t = "error") => can_unlink' = hist'.pre.can_unlink

C37_CanUnlinkMonotonic == [][C37_Step]_vars

\* a call that recorded no output has completed and granted the permission
\* to an analysis that had none
C37_Witness ==
    /\ pc = "done" /\ outcome.t = "ok" /\ data.override_last_files
    /\ output_filenames = <<>>
    /\ ~hist.pre.can_unlink /\ can_unlink

\* a call without override_last_files has completed after a call that
\* granted the permission, which is kept
C37_WitnessKept ==
    /\ pc = "done" /\ outcome.t = "ok" /\ ~data.override_last_files
    /\ ~hist.init_can_unlink /\ can_unlink /\ steps = 2

\* C38: with analysis.run_fake set no call deletes a file, whatever
\* unlink_inputs and analysis.can_unlink are: every unit ends without a
\* deletion and the files that existed when the call began still exist; a
\* call with override_last_files = true that completes still commits its
\* outputs and grants the permission to delete.
C38_DryRunDeletesNothing ==
    (run_fake /\ pc # "idle") =>
        /\ \A i \in 1..Len(hist.deleted) :
               hist.deleted[i].asked = <<>> /\ hist.deleted[i].files = <<>>
        /\ hist.pre.fs \subseteq fs
        /\ (pc = "done" /\ outcome.t = "ok" /\ data.override_last_files) =>
               /\ last_operation_filenames = [t |-> "dict", v |-> output_filenames]
               /\ can_unlink

\* a faked call that was asked and permitted to delete its inputs has
\* completed: the inputs exist, the outputs are committed
C38_Witness ==
    /\ run_fake /\ pc = "done" /\ outcome.t = "ok"
    /\ data.unlink_inputs /\ hist.pre.can_unlink /\ data.override_last_files
    /\ Len(hist.deleted) = Len(work) /\ Len(work) > 0
    /\ hist.pre.fs # {} /\ hist.pre.fs \subseteq fs
    /\ output_filenames # <<>>
    /\ last_operation_filenames = [t |-> "dict", v |-> output_filenames]

\* a faked call has granted the permission to an analysis that had none
C38_WitnessGranted ==
    /\ run_fake /\ pc = "done" /\ outcome.t = "ok"
    /\ data.unlink_inputs /\ ~hist.pre.can_unlink /\ can_unlink

====
